---- MODULE Spec2Model ----
(***************************************************************************)
(* Model of the background coordinator of the LocalAgent-Ollama extension: *)
(* handleQuery / handleStreamingQuery (prompt construction, concurrent tab *)
(* extraction) and generateWithOllama (the newline-delimited JSON stream   *)
(* relay).  One request is followed from its arrival to its return.        *)
(*                                                                         *)
(* Strings built by concatenation are modelled as sequences of their       *)
(* pieces: the accumulated response is the sequence of the fragments       *)
(* appended to it, a prompt the sequence of the template's literal parts   *)
(* and interpolated values.                                                *)
(***************************************************************************)
EXTENDS Integers, Sequences, FiniteSets, TLC

VARIABLES
  req,          \* the request data {query, model, includePageContent, mentionedTabs, messageId}
  handler,      \* request.action: "query" (handleQuery), "stream" (queryStream,
                \* handleStreamingQuery), "getModels", "checkConnection" or "getTabs"
  pc,           \* position of the handler
  pending,      \* indices of mentionedTabs whose extraction has not completed
  completed,    \* the same indices, in the order their extractions completed
  tabContents,  \* the array Promise.all resolves to, slot i for mentionedTabs[i]
  prompt,       \* the prompt built by the handler
  extractLog,   \* tab ids passed to extractTabContent, in call order
  activeCalls,  \* number of calls of extractActiveTabContent
  fetchCalls,   \* number of generate requests sent to the inference server
  body,         \* the records of the response body, as the server sent them
  rest,         \* the part of the response body no read has returned yet
  streamEnd,    \* TRUE once reader.read() has reported the end of the body
  fullResponse, \* generateWithOllama's accumulator
  chunkLog,     \* the arguments passed to onChunk, in call order
  fullText,     \* handleStreamingQuery's fullText (closure of its onChunk)
  sent,         \* notifications sent with chrome.runtime.sendMessage, in order
  genResult,    \* what generateWithOllama returned
  result,       \* how the handler's promise settled
  pageResult,   \* how the handler's call of extractActiveTabContent settled
  panelOpen,    \* TRUE while the side panel is there to receive notifications
  undelivered,  \* number of notifications whose sendMessage promise rejected
  apiOutcome,   \* what the platform answered to getModels, checkConnection or getTabs
  responses,    \* the responses the listener passed to sendResponse, in order
  ext,          \* one call of extractTabContent or extractActiveTabContent
  panelPc,      \* the side panel: "closed", the awaits of init(), "started", "ready"
  storage,      \* chrome.storage.local: selectedModel and conversationHistory
  selectedModel,         \* "" stands for null and '' (both tested with !selectedModel)
  availableModels,
  conversationHistory,
  isLoading,
  allTabs,               \* the panel's snapshot of the tabs (loadTabs)
  chat,                  \* the elements of chatContainer: messages and errors
  welcome,               \* the welcome message and its suggestion buttons are shown
  input,                 \* the child nodes of queryInput
  cursor,                \* the caret, as an offset into queryInput.textContent
  shown,                 \* tabAutocomplete.style.display is not 'none'
  items,                 \* the suggestion items of tabSuggestions
  selectedTabIndex,
  currentAtMentionStart,
  outbox,                \* the last query message the panel sent to the background,
                         \* with the mention tags and the snapshot it was built from
  inFlight,              \* number of query messages sent whose answer handleSend
                         \* has not handled yet
  appended,              \* every message passed to addMessage since the last New Chat
  savedAtOpen,           \* storage.selectedModel when the panel was opened
  committed              \* what selectCurrentTab found when it last ran, None once
                         \* the input has changed again

panelVars ==
  <<panelPc, storage, selectedModel, availableModels, conversationHistory, isLoading,
    allTabs, chat, welcome, input, cursor, shown, items, selectedTabIndex,
    currentAtMentionStart, outbox, inFlight, appended, savedAtOpen, committed>>

vars == <<req, handler, pc, pending, completed, streamEnd, tabContents, prompt, extractLog, activeCalls,
          fetchCalls, body, rest, fullResponse, chunkLog, fullText, sent,
          genResult, result, pageResult, panelOpen, undelivered, apiOutcome,
          responses, ext, panelVars>>

(***************************************************************************)
(* Bounds of the model.                                                    *)
(***************************************************************************)
MaxMentions == 2
MaxRecords == 2

None == [none |-> TRUE]

(***************************************************************************)
(* The browser's tabs, as the platform reports them.                       *)
(***************************************************************************)
TabIds == {1, 2}

PlatformTab(tabId) ==
  IF tabId = 1
    THEN [id |-> 1, title |-> "Docs", url |-> "https://x", page |-> "Hello world"]
    ELSE [id |-> 2, title |-> "Settings", url |-> "chrome://settings", page |-> ""]

\* The URLs a tab of the model can have.
Urls ==
  {"", "https://x", "file:///tmp/a.html", "chrome://settings",
   "chrome-extension://abc/page.html", "edge://settings", "brave://settings",
   "about:blank", "data:text/html,hi"}

\* tabUrl.startsWith(prefix), for the URLs of the model and the prefixes that
\* end with their scheme's separator.
StartsWith(url, prefix) ==
  prefix = (CASE url = "https://x" -> "https://"
              [] url = "file:///tmp/a.html" -> "file://"
              [] url = "chrome://settings" -> "chrome://"
              [] url = "chrome-extension://abc/page.html" -> "chrome-extension://"
              [] url = "edge://settings" -> "edge://"
              [] url = "brave://settings" -> "brave://"
              [] url = "about:blank" -> "about:"
              [] url = "data:text/html,hi" -> "data:"
              [] OTHER -> "(none)")

\* Variant of RestrictedUrl: one prefix of the list is missing.
RestrictedUrlWithoutBrave(url) ==
  \/ url = ""
  \/ StartsWith(url, "chrome://")
  \/ StartsWith(url, "chrome-extension://")
  \/ StartsWith(url, "edge://")
  \/ StartsWith(url, "about:")
  \/ StartsWith(url, "data:")

\* The test of background.js:146-153 (and 217-224).
RestrictedUrl(url) ==
  \/ url = ""
  \/ StartsWith(url, "chrome://")
  \/ StartsWith(url, "chrome-extension://")
  \/ StartsWith(url, "edge://")
  \/ StartsWith(url, "brave://")
  \/ StartsWith(url, "about:")
  \/ StartsWith(url, "data:")

\* getAllTabs: the {id, title, url} objects the panel puts in mentionedTabs.
TabInfo(tabId) ==
  [id |-> tabId, title |-> PlatformTab(tabId).title, url |-> PlatformTab(tabId).url]

RECURSIVE SeqsUpTo(_, _)
SeqsUpTo(S, n) ==
  IF n = 0 THEN {<<>>}
  ELSE LET shorter == SeqsUpTo(S, n - 1)
       IN shorter \cup {Append(s, x) : s \in {t \in shorter : Len(t) = n - 1}, x \in S}

(***************************************************************************)
(* Content extraction (extractTabContent, extractActiveTabContent).        *)
(*                                                                         *)
(* One call is followed through its awaits.  env says what the platform    *)
(* answers to each call the function makes: the tab lookup, the first      *)
(* message to the content script, the script injection, the retry.         *)
(***************************************************************************)
ExtEnvs ==
  [lookup : {"found", "none", "throws"},
   title : {"Docs", "Settings", ""},
   url : Urls,
   page : {"Hello world"},
   send1 : {"reply", "throws"},
   inject : {"ok", "throws"},
   send2 : {"reply", "throws"},
   reply : {"success", "failure", "none"}]

\* x || fallback, for strings.
OrDefault(x, fallback) == IF x = "" THEN fallback ELSE x

\* The content script's reply to {action: 'extractContent'} in a tab.
ContentScriptReply(tab) ==
  [success |-> TRUE,
   data |-> [title |-> tab.title, url |-> tab.url, content |-> tab.page,
             contentLength |-> 11]]

\* What sendMessage resolves to: the reply of extractPageContent, its failure
\* result, or undefined when no listener answered.
Response(env) ==
  IF env.reply = "success" THEN ContentScriptReply(env)
  ELSE IF env.reply = "failure"
    THEN [success |-> FALSE, error |-> "extraction failed"]
  ELSE None

Returns(value) == [raised |-> FALSE, value |-> value]

ExtNotFound(fn) ==
  IF fn = "tab"
    THEN Returns([title |-> "Error", url |-> "", content |-> "[Tab not found]",
                  contentLength |-> 0])
    ELSE Returns([title |-> "Current Tab", url |-> "",
                  content |-> "[No active tab found]", contentLength |-> 0])

ExtRestricted(fn, tab) ==
  IF fn = "tab"
    THEN Returns([title |-> OrDefault(tab.title, "Restricted Tab"), url |-> tab.url,
                  content |-> "[Cannot access system or extension pages]",
                  contentLength |-> 0])
    ELSE Returns([title |-> "Current Tab", url |-> "",
                  content |-> "[Cannot access system or extension pages]",
                  contentLength |-> 0])

\* The placeholder after the messages (background.js:180-186, 246-252).
ExtFailed(fn, tab) ==
  IF fn = "tab"
    THEN Returns([title |-> OrDefault(tab.title, "Error"), url |-> tab.url,
                  content |-> "[Could not extract content - tab may need to be refreshed]",
                  contentLength |-> 0])
    ELSE Returns([title |-> "Current Tab", url |-> "",
                  content |-> "[Content extraction unavailable - tab may need to be refreshed]",
                  contentLength |-> 0])

\* Variant of ExtCatch: the error is thrown again, as getAllTabs does.
ExtCatchRethrows(fn, tab) == [raised |-> TRUE, value |-> None]

\* The outer catch (background.js:187-195, 253-261).
ExtCatch(fn, tab) == ExtFailed(fn, tab)

ExtSuccess(fn, tab, response) ==
  IF fn = "tab"
    THEN Returns([title |-> response.data.title, url |-> response.data.url,
                  content |-> response.data.content,
                  contentLength |-> response.data.contentLength,
                  tabTitle |-> tab.title, tabUrl |-> tab.url])
    ELSE Returns(response.data)

\* The state of one call: the function, its environment, the await it is
\* at, the platform calls it has made and, once it has settled, its result.
ExtStart(fn, env) ==
  [fn |-> fn, env |-> env, pc |-> "lookup", calls |-> <<"lookup">>, result |-> None]

ExtIdle ==
  [fn |-> "none", env |-> None, pc |-> "idle", calls |-> <<>>, result |-> None]

ExtDone(st, settled) == [st EXCEPT !.pc = "done", !.result = settled]

\* if (response && response.success) ... (background.js:172-186, 242-252)
ExtAfterReply(st) ==
  LET response == Response(st.env)
  IN IF response # None /\ response.success
       THEN ExtDone(st, ExtSuccess(st.fn, st.env, response))
       ELSE ExtDone(st, ExtFailed(st.fn, st.env))

\* chrome.tabs.get / chrome.tabs.query has settled (background.js:132-165).
ExtAfterLookup(st) ==
  IF st.env.lookup = "throws"
    THEN ExtDone(st, ExtCatch(st.fn, [title |-> "", url |-> ""]))
  ELSE IF st.env.lookup = "none"
    THEN ExtDone(st, ExtNotFound(st.fn))
  ELSE IF RestrictedUrl(st.env.url)
    THEN ExtDone(st, ExtRestricted(st.fn, st.env))
  ELSE [st EXCEPT !.pc = "send", !.calls = Append(@, "sendMessage")]

\* The first sendMessage has settled (background.js:164-168).
ExtAfterSend(st) ==
  IF st.env.send1 = "throws"
    THEN [st EXCEPT !.pc = "inject", !.calls = Append(@, "executeScript")]
    ELSE ExtAfterReply(st)

\* Variant of ExtAfterRetry: a failed retry is followed by another message.
ExtAfterRetryAgain(st) ==
  IF st.env.send2 = "throws"
    THEN ExtAfterReply([st EXCEPT !.calls = Append(@, "sendMessage")])
    ELSE ExtAfterReply(st)

\* The retry has settled (background.js:169).
ExtAfterRetry(st) ==
  IF st.env.send2 = "throws"
    THEN ExtDone(st, ExtCatch(st.fn, st.env))
    ELSE ExtAfterReply(st)

\* executeScript has settled (background.js:168-169).
ExtAfterInject(st) ==
  IF st.env.inject = "throws"
    THEN ExtDone(st, ExtCatch(st.fn, st.env))
    ELSE [st EXCEPT !.pc = "retry", !.calls = Append(@, "sendMessage")]

ExtStep(st) ==
  CASE st.pc = "lookup" -> ExtAfterLookup(st)
    [] st.pc = "send" -> ExtAfterSend(st)
    [] st.pc = "inject" -> ExtAfterInject(st)
    [] st.pc = "retry" -> ExtAfterRetry(st)
    [] OTHER -> st

\* A whole call, from its first await to its result.
RECURSIVE ExtRun(_)
ExtRun(st) == IF st.pc \in {"done", "idle"} THEN st ELSE ExtRun(ExtStep(st))

\* The environment in which every call about a tab of PlatformTab succeeds
\* at the first message.
TabEnv(tabId) ==
  [lookup |-> "found", title |-> PlatformTab(tabId).title, url |-> PlatformTab(tabId).url,
   page |-> PlatformTab(tabId).page, send1 |-> "reply", inject |-> "ok",
   send2 |-> "reply", reply |-> "success"]

ExtractTabContent(tabId) == ExtRun(ExtStart("tab", TabEnv(tabId))).result.value

\* The environments extractActiveTabContent can meet: any tab of PlatformTab
\* can be the active one, and every platform call can fail.
ActiveEnvs ==
  {env \in ExtEnvs : \E id \in TabIds : /\ env.title = PlatformTab(id).title
                                         /\ env.url = PlatformTab(id).url}

ExtractActiveTabContent(env) == ExtRun(ExtStart("active", env)).result

\* What a call of extractActiveTabContent can settle to.
ActiveResults == {ExtractActiveTabContent(env) : env \in ActiveEnvs}

(***************************************************************************)
(* Prompt construction (handleQuery, handleStreamingQuery).                *)
(***************************************************************************)
\* One element of contextParts: the template of background.js:340-345.
TabBlock(tabInfo, tabData) ==
  <<"Tab: ", tabInfo.title, "URL: ", tabInfo.url, "Content:", tabData.content>>

\* contextParts.join('\n---\n\n') over tabContents.forEach((tabData, index) => ...)
RECURSIVE JoinBlocks(_, _, _)
JoinBlocks(mentionedTabs, contents, i) ==
  IF i > Len(contents) THEN <<>>
  ELSE (IF i > 1 THEN <<"---">> ELSE <<>>)
       \o TabBlock(mentionedTabs[i], contents[i])
       \o JoinBlocks(mentionedTabs, contents, i + 1)

MultiTabPrompt(query, mentionedTabs, contents) ==
  <<"Based on the following web page content from referenced tabs, please answer the question.">>
  \o JoinBlocks(mentionedTabs, contents, 1)
  \o <<"Question: ", query, "Answer:">>

PagePrompt(query, pageData) ==
  <<"Based on the following web page content, please answer the question.",
    "Page Title: ", pageData.title, "URL: ", pageData.url,
    "Content:", pageData.content, "Question: ", query, "Answer:">>

\* The prompt of the inner catch (background.js:369-372, 423-426).
NotePrompt(query) == <<query, "\n\n[Note: Page content unavailable]">>

\* Variant of PromptCase: the page branch tested before the mentioned tabs.
PromptCaseSwapped(data) ==
  IF data.includePageContent THEN "page"
  ELSE IF Len(data.mentionedTabs) > 0 THEN "tabs"
  ELSE "raw"

\* The branch of handleQuery's if / else if (background.js:331, 355).
PromptCase(data) ==
  IF Len(data.mentionedTabs) > 0 THEN "tabs"
  ELSE IF data.includePageContent THEN "page"
  ELSE "raw"

\* The branch of handleStreamingQuery's if (background.js:409): mentionedTabs
\* is not among the fields it reads from data.
StreamPromptCase(data) ==
  IF data.includePageContent THEN "page" ELSE "raw"

\* Variant of NoModel: the check of the model is missing.
NoModelNeverThrown(data) == FALSE

\* if (!model) throw new Error('No model selected')
NoModel(data) == data.model = ""

\* Variant of StoreResult: values collected in the order the promises settle.
StoreInCompletionOrder(contents, i, value) ==
  LET free == {k \in DOMAIN contents : contents[k] = None}
      first == CHOOSE k \in free : \A other \in free : k <= other
  IN [contents EXCEPT ![first] = value]

\* Promise.all: the value of the i-th promise goes to slot i of the result.
StoreResult(contents, i, value) == [contents EXCEPT ![i] = value]

(***************************************************************************)
(* The generation stream (generateWithOllama).                             *)
(*                                                                         *)
(* The response body is the text of its records, one per line.  The text  *)
(* of one record is modelled as two pieces, so that a network read can    *)
(* end inside a record as well as between records.                        *)
(***************************************************************************)
RecA == [kind |-> "json", response |-> "a", done |-> FALSE, model |-> "llama3"]
RecB == [kind |-> "json", response |-> "b", done |-> FALSE, model |-> "llama3"]
RecDone == [kind |-> "json", response |-> "c", done |-> TRUE, model |-> "llama3"]
RecBad == [kind |-> "malformed", response |-> "", done |-> FALSE, model |-> ""]

Records == {RecA, RecB, RecDone, RecBad}

Piece(r, k) == [rec |-> r, piece |-> k]

LineBreak == [rec |-> None, piece |-> "\n"]

\* The bytes of the body: each record's text followed by a line break.
RECURSIVE Wire(_)
Wire(records) ==
  IF records = <<>> THEN <<>>
  ELSE <<Piece(Head(records), "head"), Piece(Head(records), "tail"), LineBreak>>
       \o Wire(Tail(records))

\* chunk.split('\n').filter(line => line.trim()): the non-blank lines of one read.
RECURSIVE SplitLines(_, _)
SplitLines(chunk, line) ==
  IF chunk = <<>> THEN (IF line = <<>> THEN <<>> ELSE <<line>>)
  ELSE IF Head(chunk) = LineBreak
    THEN (IF line = <<>> THEN <<>> ELSE <<line>>) \o SplitLines(Tail(chunk), <<>>)
  ELSE SplitLines(Tail(chunk), Append(line, Head(chunk)))

ParseError == [kind |-> "SyntaxError"]

\* JSON.parse(line): a line is JSON text when it is the whole text of a
\* well-formed record; part of a record's text is not.
JSONparse(line) ==
  IF /\ Len(line) = 2
     /\ line[1].piece = "head" /\ line[2].piece = "tail"
     /\ line[1].rec = line[2].rec
     /\ line[1].rec.kind = "json"
    THEN line[1].rec
    ELSE ParseError

\* The return inside the loop (background.js:81-88).
DoneReturn(full, data) == [success |-> TRUE, text |-> full, model |-> data.model]

\* Variant of EndReturn: a body without completion record reported as a failure.
IncompleteStreamError(full) == [success |-> FALSE, error |-> "Incomplete stream"]

\* The return after the loop (background.js:95-98): the result has no model.
EndReturn(full) == [success |-> TRUE, text |-> full, model |-> "undefined"]

\* Variant of OnChunk: the fragment is appended without calling onChunk.
OnChunkDropped(calls, hasOnChunk, fragment) == calls

\* if (onChunk) onChunk(data.response)
OnChunk(calls, hasOnChunk, fragment) ==
  IF hasOnChunk THEN Append(calls, fragment) ELSE calls

\* The body of the for loop over the lines of one read (background.js:72-92).
\* st = [full, calls, ret]: the accumulator, the onChunk calls made and the
\* value returned, None while the function has not returned.
ProcessLine(line, st, hasOnChunk) ==
  LET data == JSONparse(line)
  IN IF data = ParseError THEN st
     ELSE LET st1 == IF data.response # ""
                       THEN [st EXCEPT !.full = Append(@, data.response),
                                       !.calls = OnChunk(@, hasOnChunk, data.response)]
                       ELSE st
          IN IF data.done
               THEN [st1 EXCEPT !.ret = DoneReturn(st1.full, data)]
               ELSE st1

RECURSIVE ProcessLines(_, _, _)
ProcessLines(lines, st, hasOnChunk) ==
  IF lines = <<>> \/ st.ret # None THEN st
  ELSE ProcessLines(Tail(lines), ProcessLine(Head(lines), st, hasOnChunk), hasOnChunk)

\* handleStreamingQuery's onChunk (background.js:431-442), applied to the
\* fragments of one read: fullText += chunk, then a streamChunk notification.
RECURSIVE StreamCallback(_, _, _)
StreamCallback(calls, st, messageId) ==
  IF calls = <<>> THEN st
  ELSE LET text == Append(st.fullText, Head(calls))
       IN StreamCallback(Tail(calls),
            [fullText |-> text,
             sent |-> Append(st.sent,
                        [action |-> "streamChunk", messageId |-> messageId,
                         chunk |-> Head(calls), fullText |-> text])],
            messageId)

(***************************************************************************)
(* The requests the panel can send.                                        *)
(***************************************************************************)
Requests ==
  [query : {"Summarize"},
   model : {"", "llama3"},
   includePageContent : BOOLEAN,
   mentionedTabs : SeqsUpTo({TabInfo(id) : id \in TabIds}, MaxMentions),
   messageId : {"msg-1"}]

\* handleStreamingQuery does not read mentionedTabs: one mention stands for
\* any number of them.
StreamRequests == {data \in Requests : Len(data.mentionedTabs) <= 1}

\* getModels, checkConnection and getTabs carry no data; the handlers of the
\* model that read req are not entered for them.
NoData ==
  [query |-> "", model |-> "", includePageContent |-> FALSE,
   mentionedTabs |-> <<>>, messageId |-> ""]

Bodies == SeqsUpTo(Records, MaxRecords)

\* The side panel is not open.
NoPanel ==
  /\ panelPc = "closed"
  /\ storage = [selectedModel |-> "", conversationHistory |-> <<>>]
  /\ selectedModel = "" /\ availableModels = <<>>
  /\ conversationHistory = <<>> /\ isLoading = FALSE
  /\ allTabs = <<>> /\ chat = <<>> /\ welcome = FALSE
  /\ input = <<>> /\ cursor = 0
  /\ shown = FALSE /\ items = <<>>
  /\ selectedTabIndex = -1 /\ currentAtMentionStart = -1
  /\ outbox = <<>> /\ inFlight = 0 /\ appended = <<>> /\ savedAtOpen = ""
  /\ committed = None

Fulfilled(value) == [outcome |-> "fulfilled", value |-> value]
Rejected(error) == [outcome |-> "rejected", error |-> error]

Init ==
  /\ \/ handler = "query" /\ req \in Requests
     \/ handler = "stream" /\ req \in StreamRequests
     \/ handler \in {"getModels", "checkConnection", "getTabs"} /\ req = NoData
  /\ pc = "start"
  /\ pending = {}
  /\ completed = <<>>
  /\ streamEnd = FALSE
  /\ tabContents = <<>>
  /\ prompt = <<>>
  /\ extractLog = <<>>
  /\ activeCalls = 0
  /\ fetchCalls = 0
  /\ body = <<>>
  /\ rest = <<>>
  /\ fullResponse = <<>>
  /\ chunkLog = <<>>
  /\ fullText = <<>>
  /\ sent = <<>>
  /\ genResult = None
  /\ result = None
  /\ pageResult = None
  /\ panelOpen = TRUE
  /\ undelivered = 0
  /\ apiOutcome = None
  /\ responses = <<>>
  /\ ext = ExtIdle
  /\ NoPanel

(***************************************************************************)
(* handleQuery                                                             *)
(***************************************************************************)
\* The catch of handleQuery (background.js:387-393).
HandleQueryCatch(message) == Fulfilled([success |-> FALSE, error |-> message])

\* From the call to the first await: the model check and the choice of branch.
HandleQueryBegin ==
  /\ pc = "start" /\ handler = "query"
  /\ IF NoModel(req)
       THEN /\ result' = HandleQueryCatch("No model selected")
            /\ pc' = "returned"
            /\ UNCHANGED <<pending, tabContents, prompt, extractLog, activeCalls>>
     ELSE IF PromptCase(req) = "tabs"
       THEN /\ extractLog' = [i \in 1..Len(req.mentionedTabs) |-> req.mentionedTabs[i].id]
            /\ pending' = 1..Len(req.mentionedTabs)
            /\ tabContents' = [i \in 1..Len(req.mentionedTabs) |-> None]
            /\ pc' = "awaitAll"
            /\ UNCHANGED <<prompt, activeCalls, result>>
     ELSE IF PromptCase(req) = "page"
       THEN /\ activeCalls' = activeCalls + 1
            /\ pc' = "awaitPage"
            /\ UNCHANGED <<pending, tabContents, prompt, extractLog, result>>
     ELSE /\ prompt' = <<req.query>>
          /\ pc' = "generate"
          /\ UNCHANGED <<pending, tabContents, extractLog, activeCalls, result>>
  /\ UNCHANGED <<req, handler, ext, panelVars, panelOpen, apiOutcome, responses, pageResult, undelivered, completed, streamEnd, fetchCalls, body, rest, fullResponse, chunkLog,
                 fullText, sent, genResult>>

\* One of the concurrent extractTabContent calls completes.
ExtractionCompletes(i) ==
  /\ pc = "awaitAll" /\ i \in pending
  /\ tabContents' = StoreResult(tabContents, i, ExtractTabContent(req.mentionedTabs[i].id))
  /\ pending' = pending \ {i}
  /\ completed' = Append(completed, i)
  /\ UNCHANGED <<req, handler, ext, panelVars, panelOpen, apiOutcome, responses, pageResult, undelivered, streamEnd, pc, prompt, extractLog, activeCalls, fetchCalls, body,
                 rest, fullResponse, chunkLog, fullText, sent, genResult, result>>

\* Promise.all has resolved: the multi-tab prompt is assembled.
HandleQueryTabsPrompt ==
  /\ pc = "awaitAll" /\ pending = {}
  /\ prompt' = MultiTabPrompt(req.query, req.mentionedTabs, tabContents)
  /\ pc' = "generate"
  /\ UNCHANGED <<req, handler, ext, panelVars, panelOpen, apiOutcome, responses, pageResult, undelivered, completed, streamEnd, pending, tabContents, extractLog, activeCalls,
                 fetchCalls, body, rest, fullResponse, chunkLog, fullText, sent,
                 genResult, result>>

\* extractActiveTabContent has resolved: the single-page prompt is assembled.
HandleQueryPagePrompt ==
  /\ pc = "awaitPage" /\ handler = "query"
  /\ \E settled \in ActiveResults :
       /\ pageResult' = settled
       /\ prompt' = IF settled.raised
                      THEN NotePrompt(req.query)
                      ELSE PagePrompt(req.query, settled.value)
  /\ pc' = "generate"
  /\ UNCHANGED <<req, handler, ext, panelVars, panelOpen, apiOutcome, responses, undelivered, completed, streamEnd, pending, tabContents, extractLog, activeCalls,
                 fetchCalls, body, rest, fullResponse, chunkLog, fullText, sent,
                 genResult, result>>

\* generateWithOllama has returned (background.js:378-386).
HandleQueryReturn ==
  /\ pc = "generated" /\ handler = "query"
  /\ result' = IF genResult.success
                 THEN Fulfilled([success |-> TRUE, text |-> genResult.text,
                                 model |-> genResult.model])
                 ELSE HandleQueryCatch(genResult.error)
  /\ pc' = "returned"
  /\ UNCHANGED <<req, handler, ext, panelVars, panelOpen, apiOutcome, responses, pageResult, undelivered, completed, streamEnd, pending, tabContents, prompt, extractLog, activeCalls,
                 fetchCalls, body, rest, fullResponse, chunkLog, fullText, sent,
                 genResult>>

(***************************************************************************)
(* handleStreamingQuery                                                    *)
(***************************************************************************)
\* What a chrome.runtime.sendMessage(...) of a notification does to the code
\* that sent it.  With no panel to receive it the returned promise rejects
\* (DeliveryError).  Variant in which that rejection reaches the sender:
NotifyOutcomeThrown(open) == IF open THEN "delivered" ELSE "thrown"

\* Every notification is sent as sendMessage({...}).catch(() => {}): the
\* rejection is consumed by the empty handler (background.js:439-441, 452,
\* 467).
NotifyOutcome(open) == IF open THEN "delivered" ELSE "swallowed"

DeliveryError == "Could not establish connection. Receiving end does not exist."

\* How many of count notifications sent now are not delivered.
Undelivered(count, open) == IF open THEN 0 ELSE count

\* The catch of handleStreamingQuery (background.js:461-473).  messageId is a
\* const of the try block (line 401) and is not in scope in the catch block:
\* evaluating it at line 465 throws a ReferenceError before sendMessage is
\* called, and the promise of the async function rejects with that error.
HandleStreamingQueryCatch(notifications, message) ==
  [sent |-> notifications, result |-> Rejected("messageId is not defined")]

HandleStreamingQueryBegin ==
  /\ pc = "start" /\ handler = "stream"
  /\ IF NoModel(req)
       THEN /\ result' = HandleStreamingQueryCatch(sent, "No model selected").result
            /\ sent' = HandleStreamingQueryCatch(sent, "No model selected").sent
            /\ pc' = "returned"
            /\ UNCHANGED <<prompt, activeCalls>>
     ELSE IF StreamPromptCase(req) = "page"
       THEN /\ activeCalls' = activeCalls + 1
            /\ pc' = "awaitPage"
            /\ UNCHANGED <<prompt, result, sent>>
     ELSE /\ prompt' = <<req.query>>
          /\ pc' = "generate"
          /\ UNCHANGED <<activeCalls, result, sent>>
  /\ UNCHANGED <<req, handler, ext, panelVars, panelOpen, apiOutcome, responses, pageResult, undelivered, completed, streamEnd, pending, tabContents, extractLog, fetchCalls, body,
                 rest, fullResponse, chunkLog, fullText, genResult>>

HandleStreamingQueryPagePrompt ==
  /\ pc = "awaitPage" /\ handler = "stream"
  /\ \E settled \in ActiveResults :
       /\ pageResult' = settled
       /\ prompt' = IF settled.raised
                      THEN NotePrompt(req.query)
                      ELSE PagePrompt(req.query, settled.value)
  /\ pc' = "generate"
  /\ UNCHANGED <<req, handler, ext, panelVars, panelOpen, apiOutcome, responses, undelivered, completed, streamEnd, pending, tabContents, extractLog, activeCalls,
                 fetchCalls, body, rest, fullResponse, chunkLog, fullText, sent,
                 genResult, result>>

\* generateWithOllama has returned (background.js:444-460).
HandleStreamingQueryReturn ==
  /\ pc = "generated" /\ handler = "stream"
  /\ IF genResult.success
       THEN /\ sent' = Append(sent, [action |-> "streamComplete",
                                     messageId |-> req.messageId,
                                     text |-> genResult.text,
                                     model |-> genResult.model])
            /\ undelivered' = undelivered + Undelivered(1, panelOpen)
            /\ result' = IF NotifyOutcome(panelOpen) = "thrown"
                           THEN HandleStreamingQueryCatch(sent', DeliveryError).result
                           ELSE Fulfilled([success |-> TRUE, text |-> genResult.text,
                                           model |-> genResult.model])
       ELSE /\ sent' = HandleStreamingQueryCatch(sent, genResult.error).sent
            /\ result' = HandleStreamingQueryCatch(sent, genResult.error).result
            /\ UNCHANGED undelivered
  /\ pc' = "returned"
  /\ UNCHANGED <<req, handler, ext, panelVars, panelOpen, apiOutcome, responses, pageResult, completed, streamEnd, pending, tabContents, prompt, extractLog, activeCalls,
                 fetchCalls, body, rest, fullResponse, chunkLog, fullText, genResult>>

(***************************************************************************)
(* generateWithOllama                                                      *)
(***************************************************************************)
\* The catch of generateWithOllama (background.js:99-105).
GenerateCatch(message) == [success |-> FALSE, error |-> message]

\* fetch rejects: the server is unreachable.
FetchFails ==
  /\ pc = "generate"
  /\ fetchCalls' = fetchCalls + 1
  /\ genResult' = GenerateCatch("Failed to fetch")
  /\ pc' = "generated"
  /\ UNCHANGED <<req, handler, ext, panelVars, panelOpen, apiOutcome, responses, pageResult, undelivered, completed, streamEnd, pending, tabContents, prompt, extractLog, activeCalls,
                 body, rest, fullResponse, chunkLog, fullText, sent, result>>

\* The server answers with a status that is not 2xx.
FetchNotOk ==
  /\ pc = "generate"
  /\ fetchCalls' = fetchCalls + 1
  /\ genResult' = GenerateCatch("Ollama API error: 500")
  /\ pc' = "generated"
  /\ UNCHANGED <<req, handler, ext, panelVars, panelOpen, apiOutcome, responses, pageResult, undelivered, completed, streamEnd, pending, tabContents, prompt, extractLog, activeCalls,
                 body, rest, fullResponse, chunkLog, fullText, sent, result>>

\* The server answers 2xx; records is the body it will stream.
FetchOk(records) ==
  /\ pc = "generate"
  /\ fetchCalls' = fetchCalls + 1
  /\ body' = records
  /\ rest' = Wire(records)
  /\ pc' = "reading"
  /\ UNCHANGED <<req, handler, ext, panelVars, panelOpen, apiOutcome, responses, pageResult, undelivered, completed, streamEnd, pending, tabContents, prompt, extractLog, activeCalls,
                 fullResponse, chunkLog, fullText, sent, genResult, result>>

\* reader.read() returns the next n bytes of the body, and the for loop runs
\* over their lines (one turn of the while loop, background.js:65-93).
Read(n) ==
  /\ pc = "reading" /\ n \in 1..Len(rest)
  /\ LET chunk == SubSeq(rest, 1, n)
         st == ProcessLines(SplitLines(chunk, <<>>),
                            [full |-> fullResponse, calls |-> <<>>, ret |-> None],
                            handler = "stream")
         cb == StreamCallback(st.calls, [fullText |-> fullText, sent |-> sent],
                              req.messageId)
     IN /\ rest' = SubSeq(rest, n + 1, Len(rest))
        /\ fullResponse' = st.full
        /\ chunkLog' = chunkLog \o st.calls
        /\ fullText' = cb.fullText
        /\ sent' = cb.sent
        /\ undelivered' = undelivered + Undelivered(Len(cb.sent) - Len(sent), panelOpen)
        /\ IF cb.sent # sent /\ NotifyOutcome(panelOpen) = "thrown"
             THEN genResult' = GenerateCatch(DeliveryError) /\ pc' = "generated"
             ELSE IF st.ret # None
               THEN genResult' = st.ret /\ pc' = "generated"
               ELSE UNCHANGED <<genResult, pc>>
  /\ UNCHANGED <<req, handler, ext, panelVars, panelOpen, apiOutcome, responses, pageResult, completed, streamEnd, pending, tabContents, prompt, extractLog, activeCalls,
                 fetchCalls, body, result>>

\* reader.read() returns done: the body has ended.
ReadDone ==
  /\ pc = "reading" /\ rest = <<>>
  /\ genResult' = EndReturn(fullResponse)
  /\ streamEnd' = TRUE
  /\ pc' = "generated"
  /\ UNCHANGED <<req, handler, ext, panelVars, panelOpen, apiOutcome, responses, pageResult, undelivered, completed, pending, tabContents, prompt, extractLog, activeCalls,
                 fetchCalls, body, rest, fullResponse, chunkLog, fullText, sent, result>>

\* reader.read() rejects: the connection broke while the body was streamed.
ReadFails ==
  /\ pc = "reading" /\ rest # <<>>
  /\ genResult' = GenerateCatch("network error")
  /\ pc' = "generated"
  /\ UNCHANGED <<req, handler, ext, panelVars, panelOpen, apiOutcome, responses, pageResult, undelivered, completed, streamEnd, pending, tabContents, prompt, extractLog, activeCalls,
                 fetchCalls, body, rest, fullResponse, chunkLog, fullText, sent, result>>

\* The side panel is closed while a request is being served.
ClosePanel ==
  /\ panelOpen /\ pc \notin {"returned", "responded"}
  /\ panelOpen' = FALSE
  /\ UNCHANGED <<req, handler, pc, pending, completed, streamEnd, tabContents, prompt,
                 extractLog, activeCalls, fetchCalls, body, rest, fullResponse,
                 chunkLog, fullText, sent, genResult, result, pageResult,
                 undelivered, apiOutcome, responses, ext, panelVars>>

(***************************************************************************)
(* getModels, checkConnection, getTabs and the message listener            *)
(***************************************************************************)
\* What the platform can answer: the server's answer to GET /api/tags for
\* getModels and checkConnection, chrome.tabs.query({}) for getTabs.
TagsOutcomes == {"ok", "okNoModels", "notOk", "badJson", "unreachable"}
TabsOutcomes == {"tabs", "rejects"}

ModelList == <<[name |-> "llama3"], [name |-> "mistral"]>>

\* fetchOllamaModels (background.js:8-26): every fault ends in its catch.
FetchOllamaModels(outcome) ==
  CASE outcome = "ok" -> [success |-> TRUE, models |-> ModelList]
    [] outcome = "okNoModels" -> [success |-> TRUE, models |-> <<>>]
    [] outcome = "notOk" -> [success |-> FALSE, error |-> "Ollama API error: 500"]
    [] outcome = "badJson" -> [success |-> FALSE, error |-> "Unexpected token"]
    [] outcome = "unreachable" -> [success |-> FALSE, error |-> "Failed to fetch"]

\* checkOllamaConnection (background.js:31-38): response.ok; json() is not
\* called.
CheckOllamaConnection(outcome) == outcome \in {"ok", "okNoModels", "badJson"}

\* getAllTabs (background.js:111-124): its catch rethrows.
GetAllTabs(outcome) ==
  IF outcome = "tabs"
    THEN Fulfilled([i \in 1..Cardinality(TabIds) |->
                      [id |-> PlatformTab(i).id, title |-> PlatformTab(i).title,
                       url |-> PlatformTab(i).url, active |-> i = 1]])
    ELSE Rejected("No current window")

\* The operation the listener starts for getModels, checkConnection or
\* getTabs settles.
SimpleHandlerSettles(outcome) ==
  /\ pc = "start" /\ handler \in {"getModels", "checkConnection", "getTabs"}
  /\ outcome \in IF handler = "getTabs" THEN TabsOutcomes ELSE TagsOutcomes
  /\ apiOutcome' = outcome
  /\ result' = CASE handler = "getModels" -> Fulfilled(FetchOllamaModels(outcome))
                  [] handler = "checkConnection" -> Fulfilled(CheckOllamaConnection(outcome))
                  [] handler = "getTabs" -> GetAllTabs(outcome)
  /\ pc' = "returned"
  /\ UNCHANGED <<req, handler, pending, completed, streamEnd, tabContents, prompt,
                 extractLog, activeCalls, fetchCalls, body, rest, fullResponse,
                 chunkLog, fullText, sent, genResult, pageResult, panelOpen,
                 undelivered, responses, ext, panelVars>>

\* Variant of ListenerCatch: the rejection is left unhandled, nothing is sent.
ListenerCatchMissing(action, error) == <<>>

\* The .catch of each branch of the listener (background.js:271-274, 281,
\* 288-291, 298-301, 309-312): the responses it sends.
ListenerCatch(action, error) ==
  IF action = "checkConnection"
    THEN <<[connected |-> FALSE]>>
    ELSE <<[success |-> FALSE, error |-> error]>>

\* The .then of each branch (background.js:270, 280, 287, 297, 308).
ListenerThen(action, value) ==
  CASE action = "checkConnection" -> <<[connected |-> value]>>
    [] action = "getTabs" -> <<[success |-> TRUE, tabs |-> value]>>
    [] OTHER -> <<value>>

\* The promise of the operation has settled: sendResponse is called.
SendResponse ==
  /\ pc = "returned"
  /\ responses' = responses \o
       (IF result.outcome = "fulfilled"
          THEN ListenerThen(handler, result.value)
          ELSE ListenerCatch(handler, result.error))
  /\ pc' = "responded"
  /\ UNCHANGED <<req, handler, pending, completed, streamEnd, tabContents, prompt,
                 extractLog, activeCalls, fetchCalls, body, rest, fullResponse,
                 chunkLog, fullText, sent, genResult, result, pageResult,
                 panelOpen, undelivered, apiOutcome, ext, panelVars>>

Next ==
  \/ HandleQueryBegin
  \/ \E i \in pending : ExtractionCompletes(i)
  \/ HandleQueryTabsPrompt
  \/ HandleQueryPagePrompt
  \/ HandleQueryReturn
  \/ HandleStreamingQueryBegin
  \/ HandleStreamingQueryPagePrompt
  \/ HandleStreamingQueryReturn
  \/ FetchFails
  \/ FetchNotOk
  \/ \E records \in Bodies : FetchOk(records)
  \/ \E n \in 1..Len(rest) : Read(n)
  \/ ReadDone
  \/ ReadFails
  \/ \E outcome \in TagsOutcomes \cup TabsOutcomes : SimpleHandlerSettles(outcome)
  \/ SendResponse

Spec == Init /\ [][Next]_vars

(***************************************************************************)
(* handleStreamingQuery while the side panel can go away.                  *)
(***************************************************************************)
InitNotify == Init /\ handler = "stream" /\ req.mentionedTabs = <<>>

NextNotify ==
  \/ HandleStreamingQueryBegin
  \/ HandleStreamingQueryPagePrompt
  \/ HandleStreamingQueryReturn
  \/ FetchFails
  \/ FetchNotOk
  \/ \E records \in Bodies : FetchOk(records)
  \/ \E n \in 1..Len(rest) : Read(n)
  \/ ReadDone
  \/ ReadFails
  \/ ClosePanel

SpecNotify == InitNotify /\ [][NextNotify]_vars

(***************************************************************************)
(* One call of extractTabContent or extractActiveTabContent, await by      *)
(* await, in every environment.                                            *)
(***************************************************************************)
requestVars ==
  <<req, handler, pc, pending, completed, streamEnd, tabContents, prompt, extractLog,
    activeCalls, fetchCalls, body, rest, fullResponse, chunkLog, fullText, sent,
    genResult, result, pageResult, panelOpen, undelivered, apiOutcome, responses>>

NoRequest ==
  /\ req = NoData /\ handler = "none" /\ pc = "idle"
  /\ pending = {} /\ completed = <<>> /\ streamEnd = FALSE
  /\ tabContents = <<>> /\ prompt = <<>> /\ extractLog = <<>>
  /\ activeCalls = 0 /\ fetchCalls = 0
  /\ body = <<>> /\ rest = <<>> /\ fullResponse = <<>> /\ chunkLog = <<>>
  /\ fullText = <<>> /\ sent = <<>>
  /\ genResult = None /\ result = None /\ pageResult = None
  /\ panelOpen = TRUE /\ undelivered = 0 /\ apiOutcome = None /\ responses = <<>>

InitExtract ==
  /\ NoRequest
  /\ NoPanel
  /\ ext \in {ExtStart(fn, env) : fn \in {"tab", "active"}, env \in ExtEnvs}

\* chrome.tabs.get(tabId) / chrome.tabs.query({active, currentWindow}) settles.
ExtLookupSettles ==
  /\ ext.pc = "lookup"
  /\ ext' = ExtAfterLookup(ext)
  /\ UNCHANGED <<requestVars, panelVars>>

\* The first chrome.tabs.sendMessage settles.
ExtSendSettles ==
  /\ ext.pc = "send"
  /\ ext' = ExtAfterSend(ext)
  /\ UNCHANGED <<requestVars, panelVars>>

\* chrome.scripting.executeScript settles.
ExtInjectSettles ==
  /\ ext.pc = "inject"
  /\ ext' = ExtAfterInject(ext)
  /\ UNCHANGED <<requestVars, panelVars>>

\* The second chrome.tabs.sendMessage settles.
ExtRetrySettles ==
  /\ ext.pc = "retry"
  /\ ext' = ExtAfterRetry(ext)
  /\ UNCHANGED <<requestVars, panelVars>>

NextExtract ==
  \/ ExtLookupSettles
  \/ ExtSendSettles
  \/ ExtInjectSettles
  \/ ExtRetrySettles

SpecExtract == InitExtract /\ [][NextExtract]_vars

(***************************************************************************)
(* The side panel.  Text is a sequence of characters; the content of the   *)
(* contenteditable queryInput is the sequence of its child nodes, text     *)
(* nodes and mention tags.                                                 *)
(***************************************************************************)
MaxExchanges == 2

\* U+00A0, the no-break space, as one character.
NoBreakSpace == "&nbsp;"

\* The characters of the strings the panel indexes.
Chars(string) ==
  CASE string = "" -> <<>>
    [] string = "Q&nbsp;R" -> <<"Q", NoBreakSpace, "R">>
    [] string = "Docs" -> <<"D", "o", "c", "s">>
    [] string = "Settings" -> <<"S", "e", "t", "t", "i", "n", "g", "s">>
    [] string = "Untitled" -> <<"U", "n", "t", "i", "t", "l", "e", "d">>
    [] string = "https://x" -> <<"h", "t", "t", "p", "s", ":", "/", "/", "x">>
    [] string = "chrome://settings" ->
         <<"c", "h", "r", "o", "m", "e", ":", "/", "/",
           "s", "e", "t", "t", "i", "n", "g", "s">>

\* The data-query of the suggestion buttons (sidepanel markup, and
\* background.js:703-705): 'Summarize @"' and 'Explain @"'.
SuggestionQueries ==
  {<<"S", "u", "m", "m", "a", "r", "i", "z", "e", " ", "@", "\"">>,
   <<"E", "x", "p", "l", "a", "i", "n", " ", "@", "\"">>}

TextNode(chars) == [type |-> "text", chars |-> chars]

\* The span built at background.js:924-929.
MentionTag(tabTitle, tabUrl) ==
  [type |-> "mention", chars |-> Chars(tabTitle), tabTitle |-> tabTitle,
   tabUrl |-> tabUrl]

\* queryInput.textContent
RECURSIVE TextContent(_)
TextContent(nodes) ==
  IF nodes = <<>> THEN <<>> ELSE Head(nodes).chars \o TextContent(Tail(nodes))

\* getPlainText (background.js:970-987): a mention tag reads @"title".
RECURSIVE GetPlainText(_)
GetPlainText(nodes) ==
  IF nodes = <<>> THEN <<>>
  ELSE (IF Head(nodes).type = "mention"
          THEN <<"@", "\"">> \o Chars(Head(nodes).tabTitle) \o <<"\"">>
          ELSE Head(nodes).chars)
       \o GetPlainText(Tail(nodes))

Whitespace == {" ", "\n"}

\* String.prototype.trim
RECURSIVE Trim(_)
Trim(chars) ==
  IF chars = <<>> THEN <<>>
  ELSE IF Head(chars) \in Whitespace THEN Trim(Tail(chars))
  ELSE IF chars[Len(chars)] \in Whitespace THEN Trim(SubSeq(chars, 1, Len(chars) - 1))
  ELSE chars

\* String.prototype.toLowerCase, for the characters of Chars.
ToLowerCase(chars) ==
  [i \in DOMAIN chars |->
     CASE chars[i] = "D" -> "d" [] chars[i] = "S" -> "s" [] chars[i] = "U" -> "u"
       [] chars[i] = "Q" -> "q" [] chars[i] = "R" -> "r"
       [] OTHER -> chars[i]]

\* String.prototype.includes
Includes(chars, term) ==
  \E i \in 1..(Len(chars) + 1) :
    /\ i + Len(term) - 1 <= Len(chars)
    /\ SubSeq(chars, i, i + Len(term) - 1) = term

\* The loop of detectAtMention (background.js:800-811), from JavaScript
\* index i down: the index of the @, or -1.
RECURSIVE FindAt(_, _)
FindAt(text, i) ==
  IF i < 0 THEN -1
  ELSE IF text[i + 1] = "@" THEN i
  ELSE IF text[i + 1] \in Whitespace THEN -1
  ELSE FindAt(text, i - 1)

\* hideAutocomplete (background.js:873-877); the items stay in the list.
HideAutocomplete(oldItems) ==
  [shown |-> FALSE, items |-> oldItems, selectedTabIndex |-> -1,
   currentAtMentionStart |-> -1]

\* showAutocomplete (background.js:839-868): one item per tab, with the
\* texts of its title and url elements.  id is the id of the tab the item
\* is made from; it is not in the item.
ShowAutocomplete(tabs, atPos) ==
  [shown |-> TRUE,
   items |-> [i \in DOMAIN tabs |->
                [title |-> OrDefault(tabs[i].title, "Untitled"), url |-> tabs[i].url,
                 id |-> tabs[i].id]],
   selectedTabIndex |-> -1,
   currentAtMentionStart |-> atPos]

\* allTabs.filter(...) of detectAtMention (background.js:823-826)
RECURSIVE FilterTabs(_, _)
FilterTabs(tabs, term) ==
  IF tabs = <<>> THEN <<>>
  ELSE (IF \/ Includes(ToLowerCase(Chars(Head(tabs).title)), term)
           \/ Includes(ToLowerCase(Chars(Head(tabs).url)), term)
          THEN <<Head(tabs)>> ELSE <<>>)
       \o FilterTabs(Tail(tabs), term)

\* detectAtMention (background.js:796-834), the part of handleInputChange
\* that changes state.
DetectAtMention(text, cursorPos, tabs, oldItems) ==
  LET atPos == FindAt(text, cursorPos - 1)
      filtered == FilterTabs(tabs, ToLowerCase(SubSeq(text, atPos + 2, cursorPos)))
  IN IF atPos = -1 THEN HideAutocomplete(oldItems)
     ELSE IF filtered = <<>> THEN HideAutocomplete(oldItems)
     ELSE ShowAutocomplete(filtered, atPos)

\* Variant of ParseTabMentions: a mention that matches no tab is kept, as a
\* tab without id.
ParseTabMentionsKeepsAll(nodes, tabs) ==
  LET tags == SelectSeq(nodes, LAMBDA node : node.type = "mention")
  IN [i \in DOMAIN tags |->
        IF \E k \in DOMAIN tabs : tabs[k].title = tags[i].tabTitle
          THEN tabs[CHOOSE k \in DOMAIN tabs :
                      /\ tabs[k].title = tags[i].tabTitle
                      /\ \A j \in 1..(k - 1) : tabs[j].title # tags[i].tabTitle]
          ELSE [id |-> 0, title |-> tags[i].tabTitle, url |-> tags[i].tabUrl,
                active |-> FALSE]]

\* parseTabMentions (background.js:952-965): for each mention tag, the first
\* tab of allTabs with that title, if there is one.
RECURSIVE ParseTabMentions(_, _)
ParseTabMentions(nodes, tabs) ==
  IF nodes = <<>> THEN <<>>
  ELSE LET node == Head(nodes)
           found == IF node.type = "mention"
                      THEN {k \in DOMAIN tabs : tabs[k].title = node.tabTitle}
                      ELSE {}
       IN (IF found = {} THEN <<>>
           ELSE <<tabs[CHOOSE k \in found : \A j \in found : k <= j]>>)
          \o ParseTabMentions(Tail(nodes), tabs)

\* The message of handleSend (background.js:1066-1074).
QueryMessage(query, model, includePage, mentionedTabs) ==
  [action |-> "query",
   data |-> [query |-> query, model |-> model, includePageContent |-> includePage,
             mentionedTabs |-> [i \in DOMAIN mentionedTabs |->
                                  [id |-> mentionedTabs[i].id,
                                   title |-> mentionedTabs[i].title,
                                   url |-> mentionedTabs[i].url]]]]

\* conversationHistory.push({role, text, timestamp}) of addMessage
\* (background.js:1122); the timestamp is left out.
Message(role, text) == [role |-> role, text |-> text]

ErrorElement(error) == [role |-> "error", text |-> error]

\* The answers handleSend can get: a response of handleQuery, or the
\* rejection of sendMessage.
QueryResponses ==
  {[success |-> TRUE, text |-> <<"a", "c">>],
   [success |-> FALSE, error |-> <<"Failed to fetch">>],
   [thrown |-> TRUE, error |-> <<"The message port closed">>]}

\* The answers loadModels can get: a response of fetchOllamaModels, or the
\* rejection of sendMessage.
ModelResponses ==
  {FetchOllamaModels(outcome) : outcome \in TagsOutcomes}
    \cup {[thrown |-> TRUE, error |-> "The message port closed"]}

Thrown(response) == "thrown" \in DOMAIN response

\* The names a previous session can have persisted.
SavedNames == {"", "mistral", "gone"}

\* The snapshots chrome.tabs.query({}) can give: both tabs, the second tab
\* closed, the second tab closed and the first one retitled.
TabSnapshots ==
  {GetAllTabs("tabs").value,
   SubSeq(GetAllTabs("tabs").value, 1, 1),
   <<[GetAllTabs("tabs").value[1] EXCEPT !.title = "Settings"]>>}

\* The in-memory state of a panel document that has just been created.
FreshDocument ==
  /\ selectedModel' = "" /\ availableModels' = <<>>
  /\ conversationHistory' = <<>> /\ isLoading' = FALSE
  /\ chat' = <<>>
  /\ input' = <<>> /\ cursor' = 0
  /\ shown' = FALSE /\ items' = <<>>
  /\ selectedTabIndex' = -1 /\ currentAtMentionStart' = -1
  /\ outbox' = <<>> /\ inFlight' = 0
  /\ committed' = None

\* The panel is opened: init() runs up to its await of loadModels
\* (background.js:514-554); loadTabs has taken its first snapshot.
OpenPanel(snapshot) ==
  /\ panelPc = "closed"
  /\ panelPc' = "loadModels"
  /\ FreshDocument
  /\ welcome' = TRUE
  /\ allTabs' = snapshot
  /\ savedAtOpen' = storage.selectedModel
  /\ UNCHANGED <<requestVars, ext, storage, appended>>

\* The panel is closed: its document and everything in memory is gone.
PanelCloses ==
  /\ panelPc # "closed"
  /\ panelPc' = "closed"
  /\ FreshDocument
  /\ welcome' = FALSE
  /\ allTabs' = <<>>
  /\ savedAtOpen' = ""
  /\ UNCHANGED <<requestVars, ext, storage, appended>>

\* loadModels (background.js:575-611), from the answer to getModels on.
LoadModels(response) ==
  /\ panelPc = "loadModels"
  /\ IF ~Thrown(response) /\ response.success /\ Len(response.models) > 0
       THEN /\ availableModels' = response.models
            /\ IF selectedModel = ""
                 THEN /\ selectedModel' = response.models[1].name
                      /\ storage' = [storage EXCEPT !.selectedModel = response.models[1].name]
                 ELSE UNCHANGED <<selectedModel, storage>>
            /\ UNCHANGED chat
       ELSE /\ chat' = Append(chat, ErrorElement(IF Thrown(response)
                                                   THEN <<"Failed to load models">>
                                                   ELSE <<"No Ollama models found">>))
            /\ UNCHANGED <<availableModels, selectedModel, storage>>
  /\ panelPc' = "loadHistory"
  /\ UNCHANGED <<requestVars, ext, conversationHistory, isLoading, allTabs, welcome,
                 input, cursor, shown, items, selectedTabIndex, currentAtMentionStart,
                 outbox, inFlight, appended, savedAtOpen, committed>>

\* loadHistory (background.js:1176-1216)
LoadHistory ==
  /\ panelPc = "loadHistory"
  /\ IF storage.conversationHistory # <<>>
       THEN /\ conversationHistory' = storage.conversationHistory
            /\ chat' = chat \o storage.conversationHistory
            /\ welcome' = FALSE
       ELSE UNCHANGED <<conversationHistory, chat, welcome>>
  /\ panelPc' = "readSaved"
  /\ UNCHANGED <<requestVars, ext, storage, selectedModel, availableModels, isLoading,
                 allTabs, input, cursor, shown, items, selectedTabIndex,
                 currentAtMentionStart, outbox, inFlight, appended, savedAtOpen, committed>>

\* The end of init (background.js:564-569): the saved model is read.
InitReadsSavedModel ==
  /\ panelPc = "readSaved"
  /\ IF /\ storage.selectedModel # ""
        /\ \E i \in DOMAIN availableModels : availableModels[i].name = storage.selectedModel
       THEN selectedModel' = storage.selectedModel
       ELSE UNCHANGED selectedModel
  /\ panelPc' = "started"
  /\ UNCHANGED <<requestVars, ext, storage, availableModels, conversationHistory,
                 isLoading, allTabs, chat, welcome, input, cursor, shown, items,
                 selectedTabIndex, currentAtMentionStart, outbox, inFlight, appended, savedAtOpen, committed>>

\* handleModelChange (background.js:616-619)
HandleModelChange(name) ==
  /\ panelPc \in {"started", "ready"}
  /\ \E i \in DOMAIN availableModels : availableModels[i].name = name
  /\ selectedModel' = name
  /\ storage' = [storage EXCEPT !.selectedModel = name]
  /\ panelPc' = "ready"
  /\ UNCHANGED <<requestVars, ext, availableModels, conversationHistory, isLoading,
                 allTabs, chat, welcome, input, cursor, shown, items, selectedTabIndex,
                 currentAtMentionStart, outbox, inFlight, appended, savedAtOpen, committed>>

\* A suggestion button of the welcome message is clicked
\* (background.js:545-552).
SuggestionClick(query) ==
  /\ panelPc \in {"started", "ready"} /\ welcome
  /\ input' = <<TextNode(query)>>
  /\ cursor' = Len(query)
  /\ LET auto == DetectAtMention(query, Len(query), allTabs, items)
     IN /\ shown' = auto.shown /\ items' = auto.items
        /\ selectedTabIndex' = auto.selectedTabIndex
        /\ currentAtMentionStart' = auto.currentAtMentionStart
  /\ panelPc' = "ready"
  /\ committed' = None
  /\ UNCHANGED <<requestVars, ext, storage, selectedModel, availableModels,
                 conversationHistory, isLoading, allTabs, chat, welcome, outbox, inFlight,
                 appended, savedAtOpen>>

\* Variant of SendAllowed: isLoading is not tested.
SendAllowedWhileLoading(query) == query # <<>> /\ selectedModel # ""

\* The test of background.js:1042.
SendAllowed(query) == query # <<>> /\ ~isLoading /\ selectedModel # ""

\* handleSend up to its await (background.js:1040-1075), called by a click
\* on the send button or by Enter (1029-1034).  The disabled state of the
\* button only keeps handleSend from being called.
HandleSend(includePage) ==
  /\ panelPc \in {"started", "ready"}
  /\ Len(appended) + 2 <= 2 * MaxExchanges
  /\ LET query == Trim(GetPlainText(input))
         mentionedTabs == ParseTabMentions(input, allTabs)
         auto == HideAutocomplete(items)
     IN /\ SendAllowed(query)
        /\ input' = <<>> /\ cursor' = 0
        /\ shown' = auto.shown /\ items' = auto.items
        /\ selectedTabIndex' = auto.selectedTabIndex
        /\ currentAtMentionStart' = auto.currentAtMentionStart
        /\ welcome' = FALSE
        /\ chat' = Append(chat, Message("user", query))
        /\ conversationHistory' = Append(conversationHistory, Message("user", query))
        /\ appended' = Append(appended, Message("user", query))
        /\ isLoading' = TRUE
        /\ outbox' = <<[message |-> QueryMessage(query, selectedModel, includePage,
                                                 mentionedTabs),
                        mentions |-> SelectSeq(input, LAMBDA node : node.type = "mention"),
                        snapshot |-> allTabs]>>
        /\ inFlight' = inFlight + 1
  /\ panelPc' = "ready"
  /\ committed' = None
  /\ UNCHANGED <<requestVars, ext, storage, selectedModel, availableModels, allTabs,
                 savedAtOpen>>

\* The rest of handleSend (background.js:1076-1093): the answer arrives,
\* then saveHistory (1165-1171), whose storage.set succeeds or not.
ResponseArrives(response, stored) ==
  /\ panelPc = "ready" /\ inFlight > 0
  /\ inFlight' = inFlight - 1
  /\ IF ~Thrown(response) /\ response.success
       THEN /\ chat' = Append(chat, Message("assistant", response.text))
            /\ conversationHistory' =
                 Append(conversationHistory, Message("assistant", response.text))
            /\ appended' = Append(appended, Message("assistant", response.text))
       ELSE /\ chat' = Append(chat, ErrorElement(response.error))
            /\ UNCHANGED <<conversationHistory, appended>>
  /\ isLoading' = FALSE
  /\ storage' = IF stored
                  THEN [storage EXCEPT !.conversationHistory = conversationHistory']
                  ELSE storage
  /\ UNCHANGED <<requestVars, ext, panelPc, selectedModel, availableModels, allTabs,
                 welcome, input, cursor, shown, items, selectedTabIndex,
                 currentAtMentionStart, outbox, savedAtOpen, committed>>

\* handleNewChat (background.js:687-724)
HandleNewChat ==
  /\ panelPc \in {"started", "ready"}
  /\ conversationHistory' = <<>>
  /\ storage' = [storage EXCEPT !.conversationHistory = <<>>]
  /\ chat' = <<>>
  /\ welcome' = TRUE
  /\ input' = <<>> /\ cursor' = 0
  /\ LET auto == HideAutocomplete(items)
     IN /\ shown' = auto.shown /\ items' = auto.items
        /\ selectedTabIndex' = auto.selectedTabIndex
        /\ currentAtMentionStart' = auto.currentAtMentionStart
  /\ appended' = <<>>
  /\ panelPc' = "ready"
  /\ committed' = None
  /\ UNCHANGED <<requestVars, ext, selectedModel, availableModels, isLoading, allTabs,
                 outbox, inFlight, savedAtOpen>>

\* The first n characters of the content, as nodes; n does not fall inside
\* a mention tag.
RECURSIVE NodesBefore(_, _)
NodesBefore(nodes, n) ==
  IF n <= 0 \/ nodes = <<>> THEN <<>>
  ELSE IF Len(Head(nodes).chars) <= n
    THEN <<Head(nodes)>> \o NodesBefore(Tail(nodes), n - Len(Head(nodes).chars))
  ELSE <<TextNode(SubSeq(Head(nodes).chars, 1, n))>>

\* The content from character n on, as nodes.
RECURSIVE NodesAfter(_, _)
NodesAfter(nodes, n) ==
  IF nodes = <<>> THEN <<>>
  ELSE IF n <= 0 THEN nodes
  ELSE IF Len(Head(nodes).chars) <= n
    THEN NodesAfter(Tail(nodes), n - Len(Head(nodes).chars))
  ELSE <<TextNode(SubSeq(Head(nodes).chars, n + 1, Len(Head(nodes).chars)))>>
       \o Tail(nodes)

\* The caret is inside a mention tag, where nothing can be typed.
InsideMention(nodes, pos) ==
  \E k \in DOMAIN nodes :
    LET start == Len(TextContent(SubSeq(nodes, 1, k - 1)))
    IN /\ nodes[k].type = "mention"
       /\ start < pos /\ pos < start + Len(nodes[k].chars)

\* The content after a character is typed at the caret.
InsertAt(nodes, pos, char) ==
  LET before == NodesBefore(nodes, pos)
      after == NodesAfter(nodes, pos)
  IN IF before # <<>> /\ before[Len(before)].type = "text"
       THEN SubSeq(before, 1, Len(before) - 1)
            \o <<TextNode(Append(before[Len(before)].chars, char))>> \o after
     ELSE IF after # <<>> /\ Head(after).type = "text"
       THEN before \o <<TextNode(<<char>> \o Head(after).chars)>> \o Tail(after)
     ELSE before \o <<TextNode(<<char>>)>> \o after

\* Two text nodes side by side, as NodesBefore and NodesAfter leave them,
\* are one text node in the document.
RECURSIVE Normalize(_)
Normalize(nodes) ==
  IF Len(nodes) < 2 THEN nodes
  ELSE IF nodes[1].type = "text" /\ nodes[2].type = "text"
    THEN Normalize(<<TextNode(nodes[1].chars \o nodes[2].chars)>> \o SubSeq(nodes, 3, Len(nodes)))
  ELSE <<nodes[1]>> \o Normalize(Tail(nodes))

\* The number of characters of the text nodes.
TypedChars(nodes) ==
  Len(TextContent(SelectSeq(nodes, LAMBDA node : node.type = "text")))

MaxTyped == 2

Alphabet == {"@", "s", "d", " "}

\* setCursorPosition (background.js:758-791): the first text node, those of
\* the mention tags included, that reaches pos takes the caret; with none
\* the caret stays.
SetCursorPosition(nodes, pos, old) ==
  IF nodes # <<>> /\ pos <= Len(TextContent(nodes)) THEN pos ELSE old

\* selectCurrentTab (background.js:904-947) for the item at selectedTabIndex:
\* the new content and caret.  The content is rebuilt from textContent.
SelectCurrentTab(nodes, cursorPos, atStart, item) ==
  LET text == TextContent(nodes)
      beforeAt == SubSeq(text, 1, atStart)
      afterCursor == SubSeq(text, cursorPos + 1, Len(text))
      rebuilt == (IF beforeAt # <<>> THEN <<TextNode(beforeAt)>> ELSE <<>>)
                 \o <<MentionTag(item.title, item.url)>>
                 \o <<TextNode(<<" ">> \o afterCursor)>>
      newCursorPos == Len(beforeAt) + Len(Chars(item.title)) + 1
  IN [input |-> rebuilt, cursor |-> SetCursorPosition(rebuilt, newCursorPos, 0)]

\* A character is typed at the caret: the input event runs handleInputChange
\* (background.js:992-999).
Type(char) ==
  /\ panelPc \in {"started", "ready"}
  /\ TypedChars(input) < MaxTyped
  /\ ~InsideMention(input, cursor)
  /\ input' = Normalize(InsertAt(input, cursor, char))
  /\ cursor' = cursor + 1
  /\ LET auto == DetectAtMention(TextContent(input'), cursor', allTabs, items)
     IN /\ shown' = auto.shown /\ items' = auto.items
        /\ selectedTabIndex' = auto.selectedTabIndex
        /\ currentAtMentionStart' = auto.currentAtMentionStart
  /\ committed' = None
  /\ panelPc' = "ready"
  /\ UNCHANGED <<requestVars, ext, storage, selectedModel, availableModels,
                 conversationHistory, isLoading, allTabs, chat, welcome, outbox, inFlight,
                 appended, savedAtOpen>>

\* The caret is moved with the mouse or the arrow keys; no handler runs.
MoveCursor(pos) ==
  /\ panelPc \in {"started", "ready"}
  /\ pos \in 0..Len(TextContent(input)) /\ pos # cursor
  /\ ~InsideMention(input, pos)
  /\ cursor' = pos
  /\ committed' = None
  /\ panelPc' = "ready"
  /\ UNCHANGED <<requestVars, ext, storage, selectedModel, availableModels,
                 conversationHistory, isLoading, allTabs, chat, welcome, input, shown,
                 items, selectedTabIndex, currentAtMentionStart, outbox, inFlight, appended,
                 savedAtOpen>>

\* Variant of NewIndex: the index stops at the ends of the list.
NewIndexNoWrap(index, direction, length) ==
  IF index + direction < 0 THEN 0
  ELSE IF index + direction >= length THEN length - 1
  ELSE index + direction

\* The new selectedTabIndex of navigateAutocomplete (background.js:892-894).
NewIndex(index, direction, length) ==
  IF index + direction < 0 THEN length - 1
  ELSE IF index + direction >= length THEN 0
  ELSE index + direction

\* ArrowDown / ArrowUp while the list is shown (background.js:1006-1014):
\* navigateAutocomplete (882-899).
NavigateAutocomplete(direction) ==
  /\ panelPc \in {"started", "ready"} /\ shown /\ items # <<>>
  /\ selectedTabIndex' = NewIndex(selectedTabIndex, direction, Len(items))
  /\ panelPc' = "ready"
  /\ UNCHANGED <<requestVars, ext, storage, selectedModel, availableModels,
                 conversationHistory, isLoading, allTabs, chat, welcome, input, cursor,
                 shown, items, currentAtMentionStart, outbox, inFlight, appended, savedAtOpen,
                 committed>>

\* Escape while the list is shown (background.js:1023-1026).
EscapeKey ==
  /\ panelPc \in {"started", "ready"} /\ shown
  /\ LET auto == HideAutocomplete(items)
     IN /\ shown' = auto.shown /\ items' = auto.items
        /\ selectedTabIndex' = auto.selectedTabIndex
        /\ currentAtMentionStart' = auto.currentAtMentionStart
  /\ panelPc' = "ready"
  /\ UNCHANGED <<requestVars, ext, storage, selectedModel, availableModels,
                 conversationHistory, isLoading, allTabs, chat, welcome, input, cursor,
                 outbox, inFlight, appended, savedAtOpen, committed>>

\* The item at JavaScript index index is committed: by a click on it
\* (background.js:859-862) or, when it is the highlighted one, by Tab or
\* Enter (background.js:1015-1022).  selectCurrentTab ends with
\* hideAutocomplete and handleInputChange, which finds the caret at 0; the
\* timer then places the caret.
CommitSuggestion(index) ==
  /\ panelPc \in {"started", "ready"} /\ shown
  /\ index \in 0..(Len(items) - 1)
  /\ LET new == SelectCurrentTab(input, cursor, currentAtMentionStart, items[index + 1])
         auto == HideAutocomplete(items)
     IN /\ input' = new.input
        /\ cursor' = new.cursor
        /\ shown' = auto.shown /\ items' = auto.items
        /\ selectedTabIndex' = auto.selectedTabIndex
        /\ currentAtMentionStart' = auto.currentAtMentionStart
        /\ committed' =
             [before |-> NodesBefore(input, currentAtMentionStart),
              after |-> NodesAfter(input, cursor),
              atStart |-> currentAtMentionStart,
              cursor |-> cursor,
              item |-> items[index + 1]]
  /\ panelPc' = "ready"
  /\ UNCHANGED <<requestVars, ext, storage, selectedModel, availableModels,
                 conversationHistory, isLoading, allTabs, chat, welcome, outbox, inFlight,
                 appended, savedAtOpen>>

\* The timer of background.js:542 fires: loadTabs (729-738).
LoadTabs(snapshot) ==
  /\ panelPc \in {"started", "ready"}
  /\ allTabs' = snapshot
  /\ UNCHANGED <<requestVars, ext, panelPc, storage, selectedModel, availableModels,
                 conversationHistory, isLoading, chat, welcome, input, cursor, shown,
                 items, selectedTabIndex, currentAtMentionStart, outbox, inFlight, appended,
                 savedAtOpen, committed>>

\* The panel has started, with a model selected and both tabs in its
\* snapshot.
InitInput ==
  /\ NoRequest
  /\ ext = ExtIdle
  /\ panelPc = "started"
  /\ storage = [selectedModel |-> "llama3", conversationHistory |-> <<>>]
  /\ selectedModel = "llama3" /\ availableModels = ModelList
  /\ conversationHistory = <<>> /\ isLoading = FALSE
  /\ allTabs = GetAllTabs("tabs").value
  /\ chat = <<>> /\ welcome = TRUE
  /\ input = <<>> /\ cursor = 0
  /\ shown = FALSE /\ items = <<>>
  /\ selectedTabIndex = -1 /\ currentAtMentionStart = -1
  /\ outbox = <<>> /\ inFlight = 0 /\ appended = <<>> /\ savedAtOpen = "llama3"
  /\ committed = None

\* The typing of the first query of a conversation is followed.
NextInput ==
  \/ \E char \in Alphabet : appended = <<>> /\ Type(char)
  \/ \E pos \in 0..Len(TextContent(input)) : MoveCursor(pos)
  \/ \E direction \in {-1, 1} : NavigateAutocomplete(direction)
  \/ EscapeKey
  \/ \E index \in 0..(Len(items) - 1) : CommitSuggestion(index)
  \/ \E snapshot \in TabSnapshots : LoadTabs(snapshot)
  \/ \E includePage \in BOOLEAN : HandleSend(includePage)
  \/ \E response \in QueryResponses, stored \in BOOLEAN : ResponseArrives(response, stored)

SpecInput == InitInput /\ [][NextInput]_vars

InitPanel ==
  /\ NoRequest
  /\ ext = ExtIdle
  /\ panelPc = "closed"
  /\ storage \in [selectedModel : SavedNames, conversationHistory : {<<>>}]
  /\ selectedModel = "" /\ availableModels = <<>>
  /\ conversationHistory = <<>> /\ isLoading = FALSE
  /\ allTabs = <<>> /\ chat = <<>> /\ welcome = FALSE
  /\ input = <<>> /\ cursor = 0
  /\ shown = FALSE /\ items = <<>>
  /\ selectedTabIndex = -1 /\ currentAtMentionStart = -1
  /\ outbox = <<>> /\ inFlight = 0 /\ appended = <<>> /\ savedAtOpen = ""
  /\ committed = None

NextPanel ==
  \/ OpenPanel(GetAllTabs("tabs").value)
  \/ PanelCloses
  \/ \E response \in ModelResponses : LoadModels(response)
  \/ LoadHistory
  \/ InitReadsSavedModel
  \/ \E name \in {"llama3", "mistral"} : HandleModelChange(name)
  \/ \E query \in SuggestionQueries : SuggestionClick(query)
  \/ \E includePage \in BOOLEAN : HandleSend(includePage)
  \/ \E response \in QueryResponses, stored \in BOOLEAN : ResponseArrives(response, stored)
  \/ HandleNewChat

SpecPanel == InitPanel /\ [][NextPanel]_vars

(***************************************************************************)
(* Tabs that share a title, and a tab with no title.                       *)
(***************************************************************************)
\* The snapshots chrome.tabs.query({}) can give: the two tabs with their
\* own titles, with the same title, the first one with an empty title.
TitleSnapshots ==
  {GetAllTabs("tabs").value,
   <<GetAllTabs("tabs").value[1],
     [GetAllTabs("tabs").value[2] EXCEPT !.title = "Docs"]>>,
   <<[GetAllTabs("tabs").value[1] EXCEPT !.title = ""],
     GetAllTabs("tabs").value[2]>>}

\* The panel has started; its snapshot of the tabs does not change.
InitTitles ==
  /\ NoRequest
  /\ ext = ExtIdle
  /\ panelPc = "started"
  /\ storage = [selectedModel |-> "llama3", conversationHistory |-> <<>>]
  /\ selectedModel = "llama3" /\ availableModels = ModelList
  /\ conversationHistory = <<>> /\ isLoading = FALSE
  /\ allTabs \in TitleSnapshots
  /\ chat = <<>> /\ welcome = TRUE
  /\ input = <<>> /\ cursor = 0
  /\ shown = FALSE /\ items = <<>>
  /\ selectedTabIndex = -1 /\ currentAtMentionStart = -1
  /\ outbox = <<>> /\ inFlight = 0 /\ appended = <<>> /\ savedAtOpen = "llama3"
  /\ committed = None

NextTitles ==
  \/ \E char \in Alphabet : appended = <<>> /\ Type(char)
  \/ \E pos \in 0..Len(TextContent(input)) : MoveCursor(pos)
  \/ \E direction \in {-1, 1} : NavigateAutocomplete(direction)
  \/ EscapeKey
  \/ \E index \in 0..(Len(items) - 1) : CommitSuggestion(index)
  \/ \E includePage \in BOOLEAN : HandleSend(includePage)
  \/ \E response \in QueryResponses, stored \in BOOLEAN : ResponseArrives(response, stored)

SpecTitles == InitTitles /\ [][NextTitles]_vars

(***************************************************************************)
(* detectAtMention over pasted text: any character can be in the input.    *)
(***************************************************************************)
MaxPasted == 3

\* The characters of the pasted texts: a tab and a no-break space are
\* characters of queryInput.textContent like any other.
PasteAlphabet == {"@", "q", " ", "\n", "\t", NoBreakSpace}

PasteTexts == SeqsUpTo(PasteAlphabet, 2) \ {<<>>}

\* The content after text is inserted at the caret.
RECURSIVE InsertChars(_, _, _)
InsertChars(nodes, pos, text) ==
  IF text = <<>> THEN nodes
  ELSE InsertChars(Normalize(InsertAt(nodes, pos, Head(text))), pos + 1, Tail(text))

\* Text is typed or pasted at the caret: the input event runs
\* handleInputChange (background.js:992-999).
Paste(text) ==
  /\ panelPc \in {"started", "ready"}
  /\ TypedChars(input) + Len(text) <= MaxPasted
  /\ ~InsideMention(input, cursor)
  /\ input' = InsertChars(input, cursor, text)
  /\ cursor' = cursor + Len(text)
  /\ LET auto == DetectAtMention(TextContent(input'), cursor', allTabs, items)
     IN /\ shown' = auto.shown /\ items' = auto.items
        /\ selectedTabIndex' = auto.selectedTabIndex
        /\ currentAtMentionStart' = auto.currentAtMentionStart
  /\ committed' = None
  /\ panelPc' = "ready"
  /\ UNCHANGED <<requestVars, ext, storage, selectedModel, availableModels,
                 conversationHistory, isLoading, allTabs, chat, welcome, outbox,
                 inFlight, appended, savedAtOpen>>

\* The tabs of the snapshot: the title of the second one has a no-break
\* space.
PasteTabs ==
  <<GetAllTabs("tabs").value[1],
    [id |-> 2, title |-> "Q&nbsp;R", url |-> "https://x", active |-> FALSE]>>

InitDetect ==
  /\ NoRequest
  /\ ext = ExtIdle
  /\ panelPc = "started"
  /\ storage = [selectedModel |-> "llama3", conversationHistory |-> <<>>]
  /\ selectedModel = "llama3" /\ availableModels = ModelList
  /\ conversationHistory = <<>> /\ isLoading = FALSE
  /\ allTabs = PasteTabs
  /\ chat = <<>> /\ welcome = TRUE
  /\ input = <<>> /\ cursor = 0
  /\ shown = FALSE /\ items = <<>>
  /\ selectedTabIndex = -1 /\ currentAtMentionStart = -1
  /\ outbox = <<>> /\ inFlight = 0 /\ appended = <<>> /\ savedAtOpen = "llama3"
  /\ committed = None

NextDetect ==
  \/ \E text \in PasteTexts : Paste(text)
  \/ \E pos \in 0..Len(TextContent(input)) : MoveCursor(pos)
  \/ EscapeKey

SpecDetect == InitDetect /\ [][NextDetect]_vars

(***************************************************************************)
(* Vocabulary of the properties.                                           *)
(***************************************************************************)
\* The fragments of the well-formed records of a body, in order.
RECURSIVE Fragments(_)
Fragments(records) ==
  IF records = <<>> THEN <<>>
  ELSE (IF Head(records).kind = "json" /\ Head(records).response # ""
          THEN <<Head(records).response>> ELSE <<>>)
       \o Fragments(Tail(records))

DoneIndexes(records) ==
  {k \in DOMAIN records : records[k].kind = "json" /\ records[k].done}

\* The index of the first completion record of a body, 0 when it has none.
FirstDone(records) ==
  IF DoneIndexes(records) = {} THEN 0
  ELSE CHOOSE k \in DoneIndexes(records) : \A other \in DoneIndexes(records) : k <= other

\* The records of a body up to and including its first completion record.
UpToFirstDone(records) ==
  IF FirstDone(records) = 0 THEN records ELSE SubSeq(records, 1, FirstDone(records))

WellFormed(records) == \A k \in DOMAIN records : records[k].kind = "json"

IsPrefix(s, t) == Len(s) <= Len(t) /\ SubSeq(t, 1, Len(s)) = s

Returned == pc \in {"returned", "responded"}
Generated == pc \in {"generated", "returned", "responded"} /\ genResult # None
PromptBuilt ==
  /\ pc \in {"generate", "reading", "generated", "returned", "responded"}
  /\ ~NoModel(req)

Terminals == {i \in DOMAIN sent : sent[i].action \in {"streamComplete", "streamError"}}

\* The prompt handleQuery builds for a request, every extraction having completed.
HandleQueryPrompt(data) ==
  IF PromptCase(data) = "tabs"
    THEN MultiTabPrompt(data.query, data.mentionedTabs,
                        [i \in 1..Len(data.mentionedTabs) |->
                           ExtractTabContent(data.mentionedTabs[i].id)])
  ELSE IF PromptCase(data) = "page"
    THEN IF pageResult.raised
           THEN NotePrompt(data.query)
           ELSE PagePrompt(data.query, pageResult.value)
  ELSE <<data.query>>

(***************************************************************************)
(* C1.  Every run of handleStreamingQuery emits exactly one terminal       *)
(* notification tagged with the caller's messageId, streamComplete when    *)
(* generation succeeded and streamError when it failed, and no streamChunk *)
(* follows it.  The code violates it on every failing run: the catch block *)
(* throws before it sends streamError.                                     *)
(***************************************************************************)
C1_OneTerminalNotification ==
  (Returned /\ handler = "stream") =>
    /\ Cardinality(Terminals) = 1
    /\ \A i \in Terminals :
         /\ i = Len(sent)
         /\ sent[i].messageId = req.messageId
         /\ sent[i].action = IF genResult # None /\ genResult.success
                               THEN "streamComplete" ELSE "streamError"

(***************************************************************************)
(* C2.  handleStreamingQuery sends the model the prompt handleQuery builds *)
(* for the same request.  The code violates it when mentionedTabs is not   *)
(* empty: handleStreamingQuery does not read mentionedTabs.                *)
(***************************************************************************)
C2_StreamingPromptIsQueryPrompt ==
  (handler = "stream" /\ PromptBuilt) => prompt = HandleQueryPrompt(req)

(***************************************************************************)
(* C3.  generateWithOllama stops at the first completion record: it        *)
(* returns success with the fragments up to and including that record and *)
(* that record's model, and appends or forwards nothing of a later record. *)
(* The code violates it when a read ends inside the completion record.     *)
(***************************************************************************)
C3_StopsAtFirstDone ==
  (FirstDone(body) # 0) =>
    LET k == FirstDone(body)
        upTo == Fragments(UpToFirstDone(body))
        later == {body[j].response : j \in {i \in DOMAIN body : i > k /\ body[i].kind = "json"}}
                   \ ({upTo[i] : i \in DOMAIN upTo} \cup {""})
    IN /\ \A i \in DOMAIN fullResponse : fullResponse[i] \notin later
       /\ \A i \in DOMAIN chunkLog : chunkLog[i] \notin later
       /\ (Generated /\ genResult.success) =>
            /\ genResult.model = body[k].model
            /\ genResult.text = fullResponse
            /\ body[k].response # "" =>
                 /\ genResult.text # <<>>
                 /\ genResult.text[Len(genResult.text)] = body[k].response

(***************************************************************************)
(* C4.  onChunk is called once per appended fragment, in arrival order and *)
(* before the next read: between any two reads the arguments passed to     *)
(* onChunk are the accumulator, and on return they are the returned text.  *)
(***************************************************************************)
C4_OnChunkTotalIsAccumulator ==
  (handler = "stream") =>
    /\ chunkLog = fullResponse
    /\ fullText = fullResponse
    /\ (Generated /\ genResult.success) => genResult.text = chunkLog

C4_Witness ==
  /\ handler = "stream" /\ Generated /\ genResult.success
  /\ Len(chunkLog) = 2 /\ chunkLog[1] # chunkLog[2]

(***************************************************************************)
(* C5.  For a well-formed body and every division of it into reads, the    *)
(* returned text is the fragments of the records up to the first           *)
(* completion record, each once and in order.  The code violates it when a *)
(* read ends inside a record: the lines of each read are parsed alone.     *)
(***************************************************************************)
C5_TextIndependentOfReads ==
  (Generated /\ genResult.success /\ WellFormed(body)) =>
    genResult.text = Fragments(UpToFirstDone(body))

(***************************************************************************)
(* C6.  A malformed record does not abort the stream: it adds nothing to   *)
(* the accumulator and every well-formed record after it is processed,     *)
(* its fragment appended and its completion flag honoured.  The code       *)
(* violates it when a read ends inside a record that follows the           *)
(* malformed one.  Stated for the bodies that begin with a malformed       *)
(* record, so that every well-formed record is a subsequent one.           *)
(***************************************************************************)
C6_MalformedRecordSkipped ==
  (Generated /\ genResult.success /\ body # <<>> /\ Head(body).kind = "malformed") =>
    /\ genResult.text = Fragments(UpToFirstDone(Tail(body)))
    /\ (FirstDone(body) # 0) => genResult.model = body[FirstDone(body)].model

(***************************************************************************)
(* C7.  When the body ends and no record carried the completion flag,      *)
(* generateWithOllama returns success with the text accumulated so far.    *)
(***************************************************************************)
C7_EndWithoutDoneIsSuccess ==
  (streamEnd /\ FirstDone(body) = 0) =>
    /\ genResult.success
    /\ genResult.text = fullResponse
    /\ (Returned /\ handler = "query") =>
         result = Fulfilled([success |-> TRUE, text |-> fullResponse,
                             model |-> genResult.model])

C7_Witness ==
  /\ streamEnd /\ FirstDone(body) = 0 /\ Returned /\ handler = "query"
  /\ Len(fullResponse) = 2

(***************************************************************************)
(* C8.  With an empty model handleQuery returns a failure saying that no   *)
(* model is selected, and calls neither the inference server nor any tab   *)
(* extraction.                                                             *)
(***************************************************************************)
C8_NoModelNoCalls ==
  (handler = "query" /\ req.model = "") =>
    /\ fetchCalls = 0 /\ extractLog = <<>> /\ activeCalls = 0
    /\ pc \in {"start", "returned", "responded"}
    /\ Returned => result = Fulfilled([success |-> FALSE, error |-> "No model selected"])

C8_Witness ==
  /\ handler = "query" /\ req.model = "" /\ Returned
  /\ req.includePageContent /\ Len(req.mentionedTabs) > 0

(***************************************************************************)
(* C9.  handleQuery chooses the prompt by strict priority: mentioned tabs  *)
(* (the active tab is then not extracted, whatever includePageContent      *)
(* says), else the active page, else the raw query.                        *)
(***************************************************************************)
C9_PromptPriority ==
  (handler = "query" /\ PromptBuilt) =>
    IF Len(req.mentionedTabs) > 0
      THEN /\ Head(prompt) = "Based on the following web page content from referenced tabs, please answer the question."
           /\ activeCalls = 0
           /\ Len(extractLog) = Len(req.mentionedTabs)
    ELSE IF req.includePageContent
      THEN /\ Head(prompt) = "Based on the following web page content, please answer the question."
           /\ activeCalls = 1
           /\ extractLog = <<>>
    ELSE /\ prompt = <<req.query>>
         /\ activeCalls = 0
         /\ extractLog = <<>>

C9_Witness ==
  /\ handler = "query" /\ PromptBuilt
  /\ Len(req.mentionedTabs) > 0 /\ req.includePageContent

(***************************************************************************)
(* C10.  With N mentioned tabs, whatever order the extractions complete    *)
(* in, the prompt is the header, N tab blocks in the order of the mention  *)
(* list separated by N - 1 rules, and the question; the i-th block holds   *)
(* the i-th mention's title and URL and the content extracted from the     *)
(* i-th mention's tab.                                                     *)
(***************************************************************************)
C10_TabBlocksInMentionOrder ==
  (handler = "query" /\ PromptBuilt /\ Len(req.mentionedTabs) > 0) =>
    LET n == Len(req.mentionedTabs)
        at(i) == 2 + 7 * (i - 1)
    IN /\ Len(prompt) = 1 + 6 * n + (n - 1) + 3
       /\ Cardinality({k \in DOMAIN prompt : prompt[k] = "Tab: "}) = n
       /\ \A i \in 1..n :
            SubSeq(prompt, at(i), at(i) + 5) =
              <<"Tab: ", req.mentionedTabs[i].title, "URL: ", req.mentionedTabs[i].url,
                "Content:", ExtractTabContent(req.mentionedTabs[i].id).content>>
       /\ \A i \in 1..(n - 1) : prompt[at(i) + 6] = "---"
       /\ SubSeq(prompt, Len(prompt) - 2, Len(prompt)) = <<"Question: ", req.query, "Answer:">>

C10_Witness ==
  /\ handler = "query" /\ PromptBuilt
  /\ Len(req.mentionedTabs) = 2
  /\ req.mentionedTabs[1].id # req.mentionedTabs[2].id
  /\ completed = <<2, 1>>

(***************************************************************************)
(* Content extraction: failures.                                           *)
(***************************************************************************)
\* The explanation strings of the placeholders.
Explanations ==
  {"[Tab not found]", "[No active tab found]",
   "[Cannot access system or extension pages]",
   "[Could not extract content - tab may need to be refreshed]",
   "[Content extraction unavailable - tab may need to be refreshed]"}

Placeholder(value) == value.contentLength = 0 /\ value.content \in Explanations

\* The scheme prefixes of the denylist.
DenylistedPrefixes ==
  {"chrome://", "chrome-extension://", "edge://", "brave://", "about:", "data:"}

Denylisted(url) == url = "" \/ \E prefix \in DenylistedPrefixes : StartsWith(url, prefix)

Count(calls, call) == Cardinality({i \in DOMAIN calls : calls[i] = call})

\* The call reached a tab it may message and the first message failed.
FirstMessageFailed(st) ==
  st.env.lookup = "found" /\ ~Denylisted(st.env.url) /\ st.env.send1 = "throws"

\* The failure paths: the lookup fails or finds no tab, the URL is
\* restricted, a message fails with no successful retry, the injection
\* fails, the extractor answers with a failure or not at all.
FailurePath(env) ==
  \/ env.lookup \in {"none", "throws"}
  \/ Denylisted(env.url)
  \/ env.send1 = "throws" /\ (env.inject = "throws" \/ env.send2 = "throws")
  \/ env.reply # "success"

\* C11 (as stated): when includePageContent is requested with no mentioned
\* tabs and the extraction of the active tab's content fails, handleQuery
\* still calls the model and the prompt is the query followed by the note
\* that page content was unavailable.
C11_ExtractionFailureGivesNotePrompt ==
  (/\ handler = "query" /\ PromptBuilt /\ PromptCase(req) = "page"
   /\ \/ pageResult.raised
      \/ Placeholder(pageResult.value))
    => /\ prompt = NotePrompt(req.query)
       /\ Returned => fetchCalls = 1

\* C12: extractTabContent and extractActiveTabContent never raise to their
\* caller, and on every failure path the value returned is a placeholder: an
\* explanation string as content and contentLength = 0.
C12_ExtractionNeverRaises ==
  ext.pc = "done" =>
    /\ ~ext.result.raised
    /\ FailurePath(ext.env) => Placeholder(ext.result.value)

C12_Witness ==
  /\ ext.pc = "done" /\ ext.env.lookup = "found" /\ ~Denylisted(ext.env.url)
  /\ ext.env.send1 = "throws" /\ ext.env.inject = "throws"
  /\ ~ext.result.raised /\ Placeholder(ext.result.value)

\* C13: for a tab whose URL is empty or starts with a denylisted prefix,
\* extraction returns a placeholder with contentLength = 0 and neither sends
\* a message to the tab nor injects a script into it.
C13_RestrictedTabUntouched ==
  (ext.pc # "idle" /\ ext.env.lookup = "found" /\ Denylisted(ext.env.url)) =>
    /\ Count(ext.calls, "sendMessage") = 0
    /\ Count(ext.calls, "executeScript") = 0
    /\ ext.pc \in {"lookup", "done"}
    /\ ext.pc = "done" => (~ext.result.raised /\ Placeholder(ext.result.value))

C13_Witness ==
  /\ ext.pc = "done" /\ ext.env.lookup = "found" /\ ext.env.url = "brave://settings"
  /\ ext.calls = <<"lookup">> /\ ext.result.value.contentLength = 0

\* C14 (as stated): when the first message to a non-restricted tab fails,
\* extractTabContent performs exactly one injection followed by exactly one
\* retry of the message.
C14_OneInjectionThenOneRetry ==
  (ext.fn = "tab" /\ ext.pc = "done" /\ FirstMessageFailed(ext)) =>
    ext.calls = <<"lookup", "sendMessage", "executeScript", "sendMessage">>

\* C14 (amended): when the first message fails there is exactly one
\* injection attempt; the message is retried exactly once if the injection
\* succeeded and not at all if it failed; a failed injection or retry ends in
\* a placeholder; no call injects more than once or sends more than two
\* messages.
C14_AtMostOneInjectionAndRetry ==
  /\ ext.pc # "idle" =>
       /\ Count(ext.calls, "executeScript") <= 1
       /\ Count(ext.calls, "sendMessage") <= 2
  /\ (ext.pc = "done" /\ FirstMessageFailed(ext)) =>
       /\ ext.calls = IF ext.env.inject = "ok"
                        THEN <<"lookup", "sendMessage", "executeScript", "sendMessage">>
                        ELSE <<"lookup", "sendMessage", "executeScript">>
       /\ (ext.env.inject = "throws" \/ ext.env.send2 = "throws") =>
            Placeholder(ext.result.value)

C14_Witness ==
  /\ ext.fn = "tab" /\ ext.pc = "done" /\ FirstMessageFailed(ext)
  /\ ext.env.inject = "ok" /\ ext.env.send2 = "throws"
  /\ ext.calls = <<"lookup", "sendMessage", "executeScript", "sendMessage">>
  /\ Placeholder(ext.result.value)

(***************************************************************************)
(* The messaging boundary.                                                 *)
(***************************************************************************)
\* The operation behind the request failed.
OperationFailed ==
  CASE handler = "getModels" -> apiOutcome \in {"notOk", "badJson", "unreachable"}
    [] handler = "checkConnection" -> apiOutcome \in {"notOk", "unreachable"}
    [] handler = "getTabs" -> apiOutcome = "rejects"
    [] OTHER -> NoModel(req) \/ (genResult # None /\ ~genResult.success)

\* success false with an error message, or connected false.
TaggedFailure(response) ==
  IF handler = "checkConnection"
    THEN response = [connected |-> FALSE]
    ELSE /\ DOMAIN response = {"success", "error"}
         /\ ~response.success
         /\ response.error # ""

\* C19: for each of getModels, checkConnection, getTabs, query and
\* queryStream the listener sends exactly one response, sent once the
\* operation has settled; when the operation failed the response is a tagged
\* failure, whether the operation returned the failure or threw it.
C19_OneTaggedResponse ==
  /\ pc # "responded" => responses = <<>>
  /\ pc = "responded" =>
       /\ Len(responses) = 1
       /\ OperationFailed => TaggedFailure(responses[1])
       /\ ~OperationFailed => ~TaggedFailure(responses[1])

C19_Witness ==
  /\ pc = "responded" /\ handler = "getTabs" /\ apiOutcome = "rejects"
  /\ result.outcome = "rejected"
  /\ responses = <<[success |-> FALSE, error |-> result.error]>>

\* The faults generateWithOllama reports by itself.
RelayErrors == {"Failed to fetch", "Ollama API error: 500", "network error"}

\* What handleStreamingQuery makes of the result of generateWithOllama.
StreamingOutcome(generated) ==
  IF generated.success
    THEN Fulfilled([success |-> TRUE, text |-> generated.text, model |-> generated.model])
    ELSE Rejected("messageId is not defined")

\* C20: once a notification could not be delivered, the relay goes on as
\* before (every fragment is still accumulated and passed to onChunk, the
\* loop ends only at a completion record, at the end of the body or on a
\* fault of the connection) and the handler settles to what the result of
\* generateWithOllama alone determines.
C20_DeliveryFailureChangesNothing ==
  (handler = "stream" /\ undelivered > 0) =>
    /\ chunkLog = fullResponse /\ fullText = fullResponse
    /\ Len(sent) = Len(chunkLog) + (IF Returned /\ genResult.success THEN 1 ELSE 0)
    /\ Generated =>
         IF genResult.success
           THEN genResult.text = fullResponse /\ (streamEnd \/ genResult.model # "undefined")
           ELSE genResult.error \in RelayErrors
    /\ Returned => result = StreamingOutcome(genResult)

C20_Witness ==
  /\ handler = "stream" /\ Returned /\ result.outcome = "fulfilled"
  /\ Len(sent) = 3 /\ undelivered = 2
  /\ Len(result.value.text) = 2

(***************************************************************************)
(* The side panel: persisted state.                                        *)
(***************************************************************************)
Names(models) == {models[i].name : i \in DOMAIN models}

\* C15 (as stated): when init has returned, the selected model is the name
\* persisted by the previous session if the fetched set has it, no model is
\* selected if the persisted name is not in the fetched set, and the
\* persisted name has not been replaced.
C15_StartupSelectsPersistedModel ==
  panelPc = "started" =>
    /\ storage.selectedModel = savedAtOpen
    /\ (savedAtOpen # "" /\ savedAtOpen \in Names(availableModels)) =>
         selectedModel = savedAtOpen
    /\ (savedAtOpen # "" /\ savedAtOpen \notin Names(availableModels)) =>
         selectedModel = ""

\* The message elements of the chat, without the error elements.
Messages(elements) == SelectSeq(elements, LAMBDA element : element.role # "error")

\* C18 (as stated): the messages appended since the last New Chat are the
\* persisted history whenever the panel is closed, and the history and the
\* chat of the panel once it has been opened again, in insertion order.
C18_AppendedMessagesPersist ==
  /\ panelPc = "closed" => storage.conversationHistory = appended
  /\ panelPc = "started" =>
       /\ conversationHistory = appended
       /\ Messages(chat) = appended

(***************************************************************************)
(* The side panel: mentions.                                               *)
(***************************************************************************)
\* The mention tags of a sent query whose title is the title of a tab of the
\* snapshot.
Resolvable(sentQuery) ==
  {m \in DOMAIN sentQuery.mentions :
     \E k \in DOMAIN sentQuery.snapshot :
       sentQuery.snapshot[k].title = sentQuery.mentions[m].tabTitle}

\* C16: the mentionedTabs of a sent query are tabs of the snapshot, one for
\* each mention tag whose title a tab of the snapshot has; a mention with no
\* such tab is left out, its text stays in the query, the query is sent, and
\* once the answer has arrived the chat ends with that answer: the assistant
\* message, or the error the background reported.
C16_UnresolvableMentionDropped ==
  outbox # <<>> =>
    LET sentQuery == outbox[1]
        data == sentQuery.message.data
    IN /\ Len(data.mentionedTabs) = Cardinality(Resolvable(sentQuery))
       /\ \A i \in DOMAIN data.mentionedTabs :
            /\ \E k \in DOMAIN sentQuery.snapshot :
                 /\ sentQuery.snapshot[k].id = data.mentionedTabs[i].id
                 /\ sentQuery.snapshot[k].title = data.mentionedTabs[i].title
                 /\ sentQuery.snapshot[k].url = data.mentionedTabs[i].url
            /\ \E m \in Resolvable(sentQuery) :
                 sentQuery.mentions[m].tabTitle = data.mentionedTabs[i].title
       /\ \A m \in DOMAIN sentQuery.mentions :
            Includes(data.query, <<"@", "\"">> \o Chars(sentQuery.mentions[m].tabTitle)
                                 \o <<"\"">>)
       /\ chat # <<>>
       /\ IF isLoading
            THEN chat[Len(chat)] = Message("user", data.query)
            ELSE \/ chat[Len(chat)].role = "assistant"
                 \/ chat[Len(chat)] \in {ErrorElement(response.error) :
                                           response \in {r \in QueryResponses : "error" \in DOMAIN r}}

C16_Witness ==
  /\ outbox # <<>> /\ ~isLoading
  /\ outbox[1].mentions # <<>>
  /\ Resolvable(outbox[1]) = {}
  /\ outbox[1].message.data.mentionedTabs = <<>>
  /\ chat[Len(chat)].role = "assistant"

\* C17 (as stated): committing a suggestion after its @ replaces the span
\* from the @ to the caret by one reference to the chosen tab and one space,
\* keeps what was before the @ and after the caret, and puts the caret
\* right after the reference and the space.
C17_CommitReplacesExactlySpan ==
  (committed # None /\ committed.atStart < committed.cursor) =>
    /\ GetPlainText(input) =
         GetPlainText(committed.before)
           \o <<"@", "\"">> \o Chars(committed.item.title) \o <<"\"", " ">>
           \o GetPlainText(committed.after)
    /\ cursor = Len(TextContent(committed.before)) + Len(Chars(committed.item.title)) + 1

(***************************************************************************)
(* The side panel: one query at a time.                                    *)
(***************************************************************************)
\* C21: the panel never has two queries in flight: from the moment
\* handleSend has sent a query until its answer or error has been handled,
\* no send click, Enter key, suggestion button, New Chat or model change
\* sends a second one.
C21_OneQueryInFlight ==
  /\ inFlight <= 1
  /\ inFlight = 1 <=> isLoading

\* A query is in flight, New Chat has brought the welcome message back and
\* a suggestion button has filled the input.
C21_Witness ==
  /\ inFlight = 1 /\ isLoading
  /\ welcome /\ input # <<>>
  /\ selectedModel = "mistral"

(***************************************************************************)
(* The side panel: the suggestion list.                                    *)
(***************************************************************************)
\* The index next to index on a circle of length places, index -1 being
\* the place before the first and after the last.
Circular(index, direction, length) ==
  IF index = -1 THEN (IF direction = 1 THEN 0 ELSE length - 1)
  ELSE (index + direction + length) % length

\* C22: while the suggestion list is shown with n >= 1 items, ArrowDown
\* moves the highlighted index from i to (i+1) mod n and from no highlight
\* to 0, ArrowUp from i to (i-1) mod n and from no highlight to n-1, so the
\* index stays in -1..n-1; Escape hides the list and leaves the input text
\* as it is.
C22_ArrowKeysMoveCircularly ==
  /\ [](shown => Len(items) >= 1 /\ selectedTabIndex \in -1..(Len(items) - 1))
  /\ [][\A direction \in {-1, 1} :
          NavigateAutocomplete(direction) =>
            selectedTabIndex' = Circular(selectedTabIndex, direction, Len(items))]_vars
  /\ [][(shown /\ EscapeKey) =>
          (~shown' /\ TextContent(input') = TextContent(input))]_vars

\* The highlight is on the last of several items: ArrowUp from no
\* highlight, or ArrowDown to the end.
C22_Witness ==
  /\ shown /\ Len(items) >= 2
  /\ selectedTabIndex = Len(items) - 1

(***************************************************************************)
(* The side panel: detection of a mention.                                 *)
(***************************************************************************)
\* The whitespace characters of the model; "\n" is the line break.
WhitespaceCharacters == {" ", "\n", "\t", NoBreakSpace}

\* The JavaScript indexes before cursorPos where a backward scan that looks
\* for an @ and gives up at the characters of stopAt comes to an end.
ScanEnds(text, cursorPos, stopAt) ==
  {k \in 0..(cursorPos - 1) : text[k + 1] \in {"@"} \cup stopAt}

Nearest(indexes) == CHOOSE k \in indexes : \A j \in indexes : j <= k

\* What the panel shows after handleInputChange when the mention is active
\* exactly if the backward scan from the caret reaches an @ before any
\* character of stopAt, the search term being the text between the @ and
\* the caret (compared without regard to case).
DetectsMention(stopAt) ==
  LET text == TextContent(input')
      ends == ScanEnds(text, cursor', stopAt)
      active == ends # {} /\ text[Nearest(ends) + 1] = "@"
      matching == FilterTabs(allTabs,
                             ToLowerCase(SubSeq(text, Nearest(ends) + 2, cursor')))
  IN IF active /\ matching # <<>>
       THEN /\ shown'
            /\ currentAtMentionStart' = Nearest(ends)
            /\ items' = ShowAutocomplete(matching, Nearest(ends)).items
       ELSE ~shown'

\* C23 (as stated): detectAtMention treats a mention as active exactly
\* when, scanning backward from the caret, an @ is reached before any
\* whitespace character or line break; the search term is then the text
\* between that @ and the caret, and when there is no such @ the
\* autocomplete is hidden.
C23_MentionActiveUpToWhitespace ==
  [][\A text \in PasteTexts : Paste(text) => DetectsMention(WhitespaceCharacters)]_vars

(***************************************************************************)
(* The side panel: order of the history.                                   *)
(***************************************************************************)
\* Every assistant message of a history comes right after a user message.
AnswersFollowQueries(history) ==
  \A i \in DOMAIN history :
    history[i].role = "assistant" => (i > 1 /\ history[i - 1].role = "user")

\* C24 (as stated): in the persisted and in the in-memory history every
\* assistant message is immediately preceded by the user message of the
\* query it answers, under every interleaving of handleSend with New Chat
\* and with the arrival of the answer.
C24_AnswerFollowsItsQuery ==
  /\ AnswersFollowQueries(conversationHistory)
  /\ AnswersFollowQueries(storage.conversationHistory)
  /\ (/\ outbox # <<>> /\ inFlight = 0 /\ conversationHistory # <<>>
      /\ conversationHistory[Len(conversationHistory)].role = "assistant") =>
       /\ Len(conversationHistory) > 1
       /\ conversationHistory[Len(conversationHistory) - 1] =
            Message("user", outbox[1].message.data.query)

(***************************************************************************)
(* The side panel: references already in the input.                        *)
(***************************************************************************)
MentionTags(nodes) == SelectSeq(nodes, LAMBDA node : node.type = "mention")

\* @"Title", as getPlainText encodes a reference.
Encoded(tabTitle) == <<"@", "\"">> \o Chars(tabTitle) \o <<"\"">>

\* C25 (as stated): committing a suggestion leaves every reference that is
\* already in the input intact: with k - 1 references in the input before
\* the commit, the input has k references after it, parseTabMentions finds
\* k tabs when the snapshot has a tab for each title, and getPlainText
\* encodes each reference as @"Title".
C25_CommitKeepsEarlierReferences ==
  committed # None =>
    LET earlier == MentionTags(committed.before \o committed.after)
        titles == {earlier[i].tabTitle : i \in DOMAIN earlier}
                    \cup {committed.item.title}
    IN /\ Len(MentionTags(input)) = Len(earlier) + 1
       /\ \A i \in DOMAIN earlier :
            \E j \in DOMAIN input : input[j] = earlier[i]
       /\ (\A title \in titles : \E k \in DOMAIN allTabs : allTabs[k].title = title) =>
            Len(ParseTabMentions(input, allTabs)) = Len(earlier) + 1
       /\ \A title \in titles : Includes(GetPlainText(input), Encoded(title))

(***************************************************************************)
(* The side panel: identity of a mentioned tab.                            *)
(***************************************************************************)
\* C26 (as stated): with the snapshot unchanged between commit and send,
\* the tab a mention resolves to at send time is the tab, by id, whose
\* suggestion was committed, also when open tabs share a title or a tab
\* has an empty title.  The query sent is the input as the commit left it,
\* which has the committed reference and no other.
C26_MentionResolvesToCommittedTab ==
  [][\A includePage \in BOOLEAN :
       (committed # None /\ HandleSend(includePage)) =>
         LET sentTabs == outbox'[1].message.data.mentionedTabs
         IN [i \in DOMAIN sentTabs |-> sentTabs[i].id] = <<committed.item.id>>]_vars
====
